---- MODULE Spec2Model ----
(***************************************************************************)
(* Model of the gocityvibes/trading pipeline (src/trading_system):         *)
(* candle store -> TripleRSIFilter.scan -> GPT scoring ->                  *)
(* PaperExecutor.execute_new_trades -> Labeler.label_unlabeled, and the    *)
(* Optimizer's window re-evaluation.                                       *)
(*                                                                         *)
(* Units.  Prices, ATR values and price distances are integers counting    *)
(* eighths of a point, so that the tick sizes 0.25 and 1.0 are 2 and 8 and *)
(* half a tick is representable.  Timestamps are integers.  Python index i *)
(* of a DataFrame is index i+1 of the sequence that models it.             *)
(***************************************************************************)
EXTENDS Integers, Sequences, FiniteSets, TLC

\* Python None / SQL NULL: in a numeric column, and in a text column
None == -1
NoneStr == "None"

\* ---------------------------------------------------------------- bounds
MaxBars == 4
MaxCands == 2
MaxExtra == 1
MaxReports == 1
MaxPromotions == 2
MaxTrades == 3

\* ------------------------------------------------------- program constants
SYMBOLS == {"ES", "NQ", "YM"}
TIMEFRAMES == {"1m", "5m", "15m"}
STOP_LOSS_TICKS == 8
TAKE_PROFIT_TICKS == 16
GPT_SCORE_THRESHOLD == 7
MAX_HOLD_BARS == 60
LoadLimit == 5000
TRIPLE_RSI_BUY == [rsi14_lt |-> 30, rsi2_cross_up |-> 10]
TRIPLE_RSI_SELL == [rsi14_gt |-> 70, rsi2_cross_down |-> 90]

\* Config.TICK_SIZE.get(symbol, 0.25), in eighths of a point
TickSize(symbol) ==
  IF symbol = "YM" THEN 8 ELSE 2

\* FilterConfig() with its dataclass defaults
DefaultFilters ==
  [atr_min |-> 8, atr_max |-> 120, rsi14_buy |-> 30, rsi14_sell |-> 70,
   rsi5_cross_buffer |-> 0, rsi2_buy_cross |-> 10, rsi2_sell_cross |-> 90,
   volume_ma_window |-> 20, ema_fast |-> 9, ema_slow |-> 21, vwap_dev_atr |-> 0]

\* ------------------------------------------------------------------ state
VARIABLES
  candles,      \* rows of candles_raw
  candidates,   \* rows of candidates
  trades,       \* rows of trades
  labels,       \* rows of labels
  FILTERS,      \* the class attribute Config.FILTERS of the running process
  walk,         \* the locals of one _simulate call, when it is followed bar by bar
  filter_history,  \* rows of filter_history
  reports,         \* rows of optimization_reports
  opt,             \* the locals of one optimize call, while it runs
  runs             \* the locals of the _rescan_execute_window calls followed step by step

vars == <<candles, candidates, trades, labels, FILTERS, walk,
          filter_history, reports, opt, runs>>
\* the tables and locals of the pipeline stages, and those of the Optimizer's
\* configuration governance, with the window re-evaluations in progress
pipeline == <<candles, candidates, trades, labels, walk>>
gov == <<filter_history, reports, opt, runs>>

\* ---------------------------------------------------------------- helpers
Max(a, b) == IF a >= b THEN a ELSE b
Min(a, b) == IF a <= b THEN a ELSE b
Abs(a) == IF a >= 0 THEN a ELSE -a

\* INTEGER PRIMARY KEY of a new row: one more than the largest id in the table
NextId(rows) ==
  IF rows = {} THEN 1
  ELSE (CHOOSE m \in {r.id : r \in rows} : \A r \in rows : r.id <= m) + 1

\* Python round(n / d) for d > 0: nearest integer, halves to the even one
\* (\div rounds down and % is non-negative, also for negative n)
RoundDiv(n, d) ==
  LET q == n \div d
      r == n % d
  IN IF 2 * r < d THEN q
     ELSE IF 2 * r > d THEN q + 1
     ELSE IF q % 2 = 0 THEN q ELSE q + 1

\* rows of a table as a list ordered by (key, id): ORDER BY asc(key), where
\* key is a function from the rows to the integers
RECURSIVE OrderBy(_, _)
OrderBy(rows, key) ==
  IF rows = {} THEN <<>>
  ELSE LET first == CHOOSE r \in rows :
                      \A q \in rows : \/ key[r] < key[q]
                                      \/ key[r] = key[q] /\ r.id <= q.id
       IN <<first>> \o OrderBy(rows \ {first}, key)

ByTimestamp(rows) == OrderBy(rows, [r \in rows |-> r.timestamp])
ByEntryTime(rows) == OrderBy(rows, [r \in rows |-> r.entry_time])

\* .limit(n) of a query
Limit(seq, n) == SubSeq(seq, 1, Min(Len(seq), n))

Range(seq) == {seq[i] : i \in 1..Len(seq)}

\* ------------------------------------------------- Stage 1: candle store
\* The market data the provider returns, one bar per series and timestamp.  A
\* bar's shape is one of three, scaled by the symbol's tick size; the
\* indicator values make the ES bars at timestamps 3 and 5 pass the long gate
\* of Stage 2 and no other bar.
BasePrice == 100 * 8
Shapes == {"flat", "up", "down"}
StoredSeries == {<<"ES", "1m">>, <<"YM", "5m">>}

ShapesAt(ts) == IF ts >= 4 /\ ts % 2 = 0 THEN Shapes ELSE {"flat"}

FetchedBar(symbol, ts, shape) ==
  LET t == TickSize(symbol)
      go == symbol = "ES" /\ ts \in {3, 5}
  IN [timestamp |-> ts,
      open |-> BasePrice,
      high |-> IF shape = "up" THEN BasePrice + 16 * t ELSE BasePrice + 4 * t,
      low |-> IF shape = "down" THEN BasePrice - 16 * t ELSE BasePrice - 4 * t,
      close |-> IF shape = "up" THEN BasePrice + 10 * t
                ELSE IF shape = "down" THEN BasePrice - 10 * t
                ELSE BasePrice + 3 * t,
      volume |-> 100,
      atr |-> IF ts = 5 THEN 10 ELSE 24,
      rsi14 |-> IF go THEN 25 ELSE 50,
      rsi5 |-> IF go THEN 42 ELSE 40,
      rsi2 |-> IF go THEN 12 ELSE 8,
      ema_fast |-> BasePrice, ema_slow |-> BasePrice, vwap |-> BasePrice]

SeriesRows(symbol, timeframe) ==
  {c \in candles : c.symbol = symbol /\ c.timeframe = timeframe}

\* CandleCollector.save: a fetched bar becomes a row unless a row with its
\* (symbol, timeframe, timestamp) exists
Save(rows, symbol, timeframe, bar) ==
  IF \E c \in rows : c.symbol = symbol /\ c.timeframe = timeframe
                     /\ c.timestamp = bar.timestamp
  THEN rows
  ELSE rows \cup
       {[id |-> NextId(rows), symbol |-> symbol, timeframe |-> timeframe,
         timestamp |-> bar.timestamp, open |-> bar.open, high |-> bar.high,
         low |-> bar.low, close |-> bar.close, volume |-> bar.volume,
         atr |-> bar.atr, rsi14 |-> bar.rsi14, rsi5 |-> bar.rsi5,
         rsi2 |-> bar.rsi2, ema_fast |-> bar.ema_fast,
         ema_slow |-> bar.ema_slow, vwap |-> bar.vwap]}

\* ------------------------------------------------ Stage 2: TripleRSIFilter
FilterLoadFrame(symbol, timeframe, limit) ==
  Limit(ByTimestamp(SeriesRows(symbol, timeframe)), limit)

\* idx is the Python index
VolumeSurge(df, window, idx) ==
  IF window <= 0 \/ idx < window THEN FALSE
  ELSE LET sum[k \in 0..window] ==
             IF k = 0 THEN 0 ELSE sum[k - 1] + df[idx - window + k].volume
       IN 10 * window * df[idx + 1].volume > 12 * sum[window]

\* abs(close - vwap) / atr as the pair <<numerator, denominator>>; 0.0 is <<0, 1>>
VwapDevAtrs(close, vwap, atr_val) ==
  IF atr_val = None \/ atr_val = 0 \/ vwap = None THEN <<0, 1>>
  ELSE <<Abs(close - vwap), atr_val>>

\* a long gate without the upper half of the cross test
LongGateNoCross(gates, rsi14, rsi5_prev, rsi5_now, rsi2_prev, rsi2_now) ==
  /\ rsi14 # None /\ rsi2_prev # None /\ rsi2_now # None
  /\ rsi14 < gates.rsi14_lt
  /\ rsi2_prev <= gates.rsi2_cross_up
  /\ rsi5_now >= rsi5_prev

\* the value _triple_rsi_long returns when its local gates is the given dict
LongGate(gates, rsi14, rsi5_prev, rsi5_now, rsi2_prev, rsi2_now) ==
  /\ rsi14 # None /\ rsi2_prev # None /\ rsi2_now # None
  /\ rsi14 < gates.rsi14_lt
  /\ rsi2_prev <= gates.rsi2_cross_up
  /\ gates.rsi2_cross_up < rsi2_now
  /\ rsi5_now >= rsi5_prev

\* the value _triple_rsi_short returns when its local gates is the given dict
ShortGate(gates, rsi14, rsi5_prev, rsi5_now, rsi2_prev, rsi2_now) ==
  /\ rsi14 # None /\ rsi2_prev # None /\ rsi2_now # None
  /\ rsi14 > gates.rsi14_gt
  /\ rsi2_prev >= gates.rsi2_cross_down
  /\ gates.rsi2_cross_down > rsi2_now
  /\ rsi5_now <= rsi5_prev

\* gates = Config.TRIPLE_RSI_BUY
TripleRsiLong(rsi14, rsi5_prev, rsi5_now, rsi2_prev, rsi2_now) ==
  LongGate(TRIPLE_RSI_BUY, rsi14, rsi5_prev, rsi5_now, rsi2_prev, rsi2_now)

\* gates = Config.TRIPLE_RSI_SELL
TripleRsiShort(rsi14, rsi5_prev, rsi5_now, rsi2_prev, rsi2_now) ==
  ShortGate(TRIPLE_RSI_SELL, rsi14, rsi5_prev, rsi5_now, rsi2_prev, rsi2_now)

\* the body of scan's loop at model index i (Python index i - 1 >= 2): does
\* the bar reach the Candidate(...) constructor under the filters F
ScanEmits(df, i, F) ==
  LET row == df[i]
      prev == df[i - 1]
      atr_ok == row.atr # None /\ row.atr >= F.atr_min /\ row.atr <= F.atr_max
      long_ok == TripleRsiLong(row.rsi14, prev.rsi5, row.rsi5, prev.rsi2, row.rsi2)
      short_ok == TripleRsiShort(row.rsi14, prev.rsi5, row.rsi5, prev.rsi2, row.rsi2)
      dev == VwapDevAtrs(row.close, row.vwap, row.atr)
  IN /\ atr_ok
     /\ long_ok \/ short_ok
     /\ ~(F.vwap_dev_atr > 0 /\ dev[1] < F.vwap_dev_atr * dev[2])

ScanCandidate(id, symbol, timeframe, df, i, F) ==
  LET row == df[i]
      prev == df[i - 1]
      long_ok == TripleRsiLong(row.rsi14, prev.rsi5, row.rsi5, prev.rsi2, row.rsi2)
      short_ok == TripleRsiShort(row.rsi14, prev.rsi5, row.rsi5, prev.rsi2, row.rsi2)
      vol_window == F.volume_ma_window
  IN [id |-> id, symbol |-> symbol, timeframe |-> timeframe,
      timestamp |-> row.timestamp, candle_id |-> row.id,
      atr |-> row.atr, rsi14 |-> row.rsi14, rsi5 |-> row.rsi5, rsi2 |-> row.rsi2,
      ema_cross |-> /\ row.ema_fast # None /\ row.ema_slow # None
                    /\ \/ long_ok /\ row.ema_fast >= row.ema_slow
                       \/ short_ok /\ row.ema_fast <= row.ema_slow,
      volume_surge |-> IF vol_window # 0 THEN VolumeSurge(df, vol_window, i - 1)
                       ELSE FALSE,
      vwap_dev |-> VwapDevAtrs(row.close, row.vwap, row.atr),
      gpt_score |-> None, gpt_reasoning |-> NoneStr, direction |-> NoneStr]

\* TripleRSIFilter.scan on the table cands under the filters F: the table
\* after the scan and the count it returns.  Every emitting bar adds a row.
ScanTable(cands, symbol, timeframe, limit, F) ==
  LET df == FilterLoadFrame(symbol, timeframe, limit)
      hits == SelectSeq([i \in 1..Len(df) |-> i],
                        LAMBDA i : i >= 3 /\ ScanEmits(df, i, F))
      base == NextId(cands)
  IN [cands |-> cands \cup {ScanCandidate(base + k - 1, symbol, timeframe, df, hits[k], F) :
                             k \in 1..Len(hits)},
      created |-> Len(hits)]

\* ---------------------------------------------------- Stage 3: GPTDecision
\* What the external scorer can answer for one candidate: no usable answer on
\* any of the GPT_MAX_RETRIES attempts, or a score and a direction.
ScorerAnswers ==
  {[ok |-> FALSE, score |-> None, direction |-> NoneStr]} \cup
  {[ok |-> TRUE, score |-> 7, direction |-> d] : d \in {"long", "short", "none"}} \cup
  {[ok |-> TRUE, score |-> 6, direction |-> "long"]}

\* a scoring that records the direction "none" when every attempt failed
ScoreCandidateMarksFailure(cand, a) ==
  IF a.ok
  THEN [cand EXCEPT !.gpt_score = a.score, !.direction = a.direction,
                    !.gpt_reasoning = "reason"]
  ELSE [cand EXCEPT !.direction = "none"]

\* score_candidate: the candidate row after the scorer answered a
ScoreCandidate(cand, a) ==
  IF a.ok
  THEN [cand EXCEPT !.gpt_score = a.score, !.direction = a.direction,
                    !.gpt_reasoning = "reason"]
  ELSE cand

\* ------------------------------------------------- Stage 4: PaperExecutor
ticks_to_price(entry, ticks, tick_size, direction) ==
  IF direction = "long" THEN entry + ticks * tick_size
  ELSE entry - ticks * tick_size

ExecLoadFrame(symbol, timeframe, start_ts) ==
  Limit(ByTimestamp({c \in SeriesRows(symbol, timeframe) : c.timestamp >= start_ts}),
        LoadLimit)

\* an entry search that also accepts the candidate's own bar
EntryRowAfterOwnBar(df, ts) ==
  LET idx == {i \in 1..Len(df) : df[i].timestamp >= ts}
  IN IF idx = {} THEN 0
     ELSE CHOOSE i \in idx : \A j \in idx : i <= j

\* _entry_row_after: the model index of the first bar after ts, 0 for None
EntryRowAfter(df, ts) ==
  LET idx == {i \in 1..Len(df) : df[i].timestamp > ts}
  IN IF idx = {} THEN 0
     ELSE CHOOSE i \in idx : \A j \in idx : i <= j

\* the loop body with the stop tested before the target
SimBarStopFirst(direction, entry_open, stop_price, target_price, mfe, mae, bar) ==
  IF direction = "long"
  THEN [mfe |-> Max(mfe, Max(0, bar.high - entry_open)),
        mae |-> Max(mae, Max(0, entry_open - bar.low)),
        exit |-> IF bar.low <= stop_price THEN "stop"
                 ELSE IF bar.high >= target_price THEN "target"
                 ELSE NoneStr]
  ELSE [mfe |-> Max(mfe, Max(0, entry_open - bar.low)),
        mae |-> Max(mae, Max(0, bar.high - entry_open)),
        exit |-> IF bar.high >= stop_price THEN "stop"
                 ELSE IF bar.low <= target_price THEN "target"
                 ELSE NoneStr]

\* the loop body keeping the current bar's excursions, not the running maxima
SimBarNoRunningMax(direction, entry_open, stop_price, target_price, mfe, mae, bar) ==
  IF direction = "long"
  THEN [mfe |-> Max(0, bar.high - entry_open),
        mae |-> Max(0, entry_open - bar.low),
        exit |-> IF bar.high >= target_price THEN "target"
                 ELSE IF bar.low <= stop_price THEN "stop"
                 ELSE NoneStr]
  ELSE [mfe |-> Max(0, entry_open - bar.low),
        mae |-> Max(0, bar.high - entry_open),
        exit |-> IF bar.low <= target_price THEN "target"
                 ELSE IF bar.high >= stop_price THEN "stop"
                 ELSE NoneStr]

\* one pass of _simulate's loop body over a bar: the running excursions after
\* the bar and the exit the bar triggers (NoneStr when the loop goes on)
SimBar(direction, entry_open, stop_price, target_price, mfe, mae, bar) ==
  IF direction = "long"
  THEN [mfe |-> Max(mfe, Max(0, bar.high - entry_open)),
        mae |-> Max(mae, Max(0, entry_open - bar.low)),
        exit |-> IF bar.high >= target_price THEN "target"
                 ELSE IF bar.low <= stop_price THEN "stop"
                 ELSE NoneStr]
  ELSE [mfe |-> Max(mfe, Max(0, entry_open - bar.low)),
        mae |-> Max(mae, Max(0, bar.high - entry_open)),
        exit |-> IF bar.low <= target_price THEN "target"
                 ELSE IF bar.high >= stop_price THEN "stop"
                 ELSE NoneStr]

\* a loop that visits one bar more than MAX_HOLD_BARS
LastWalkIndexOneMore(df, start_i) == Min(Len(df), start_i + MAX_HOLD_BARS)

\* the last model index the loop of _simulate visits
LastWalkIndex(df, start_i) == Min(Len(df), start_i + MAX_HOLD_BARS - 1)

\* the return of _simulate when the loop ends without an exit
SimCap(df, start_i, mfe, mae) ==
  [exit_i |-> LastWalkIndex(df, start_i),
   exit_price |-> df[LastWalkIndex(df, start_i)].close,
   exit_reason |-> "eod", mfe |-> mfe, mae |-> mae]

\* the return of _simulate when the bar at index i triggers an exit
SimExit(i, reason, stop_price, target_price, mfe, mae) ==
  [exit_i |-> i,
   exit_price |-> IF reason = "target" THEN target_price ELSE stop_price,
   exit_reason |-> reason, mfe |-> mfe, mae |-> mae]

RECURSIVE SimWalk(_, _, _, _, _, _, _, _, _)
SimWalk(df, start_i, i, direction, entry_open, stop_price, target_price, mfe, mae) ==
  IF i > LastWalkIndex(df, start_i) THEN SimCap(df, start_i, mfe, mae)
  ELSE LET b == SimBar(direction, entry_open, stop_price, target_price, mfe, mae, df[i])
       IN IF b.exit # NoneStr
          THEN SimExit(i, b.exit, stop_price, target_price, b.mfe, b.mae)
          ELSE SimWalk(df, start_i, i + 1, direction, entry_open, stop_price,
                       target_price, b.mfe, b.mae)

\* a stop placed on the target's side of the entry
StopPriceSameSide(entry_open, direction, tick_size, stop_ticks) ==
  ticks_to_price(entry_open, stop_ticks, tick_size, direction)

StopPrice(entry_open, direction, tick_size, stop_ticks) ==
  ticks_to_price(entry_open, stop_ticks, tick_size,
                 IF direction = "long" THEN "short" ELSE "long")

TargetPrice(entry_open, direction, tick_size, target_ticks) ==
  ticks_to_price(entry_open, target_ticks, tick_size, direction)

Simulate(df, start_i, direction, tick_size, stop_ticks, target_ticks) ==
  LET entry_open == df[start_i].open
  IN SimWalk(df, start_i, start_i, direction, entry_open,
             StopPrice(entry_open, direction, tick_size, stop_ticks),
             TargetPrice(entry_open, direction, tick_size, target_ticks), 0, 0)

\* the tick P&L without the sign flip for a short trade
PnlTicksNoSignFlip(entry_price, exit_price, direction, tick_size) ==
  RoundDiv(exit_price - entry_price, tick_size)

\* int(round(diff / tick_size)) with diff sign-flipped for a short trade
PnlTicks(entry_price, exit_price, direction, tick_size) ==
  LET diff == IF direction = "short" THEN -(exit_price - entry_price)
              ELSE exit_price - entry_price
  IN RoundDiv(diff, tick_size)

\* a Trade row that records FilterConfig() whatever configuration is in effect
MakeTradeDefaultConfig(id, cand, df, start_i, sim, tick_size, F) ==
  LET entry_price == df[start_i].open
      pnl_ticks == PnlTicks(entry_price, sim.exit_price, cand.direction, tick_size)
  IN [id |-> id, candidate_id |-> cand.id, symbol |-> cand.symbol,
      direction |-> cand.direction,
      entry_time |-> df[start_i].timestamp, entry_price |-> entry_price,
      position_size |-> 1,
      exit_time |-> df[sim.exit_i].timestamp, exit_price |-> sim.exit_price,
      exit_reason |-> sim.exit_reason,
      stop_loss |-> StopPrice(entry_price, cand.direction, tick_size, STOP_LOSS_TICKS),
      take_profit |-> TargetPrice(entry_price, cand.direction, tick_size, TAKE_PROFIT_TICKS),
      pnl |-> pnl_ticks * tick_size, pnl_ticks |-> pnl_ticks,
      mfe |-> sim.mfe, mae |-> sim.mae,
      bars_held |-> sim.exit_i - start_i + 1,
      filter_config |-> DefaultFilters, gpt_score |-> cand.gpt_score]

\* the Trade(...) row execute_new_trades builds from a simulation result
MakeTrade(id, cand, df, start_i, sim, tick_size, F) ==
  LET entry_price == df[start_i].open
      pnl_ticks == PnlTicks(entry_price, sim.exit_price, cand.direction, tick_size)
  IN [id |-> id, candidate_id |-> cand.id, symbol |-> cand.symbol,
      direction |-> cand.direction,
      entry_time |-> df[start_i].timestamp, entry_price |-> entry_price,
      position_size |-> 1,
      exit_time |-> df[sim.exit_i].timestamp, exit_price |-> sim.exit_price,
      exit_reason |-> sim.exit_reason,
      stop_loss |-> StopPrice(entry_price, cand.direction, tick_size, STOP_LOSS_TICKS),
      take_profit |-> TargetPrice(entry_price, cand.direction, tick_size, TAKE_PROFIT_TICKS),
      pnl |-> pnl_ticks * tick_size, pnl_ticks |-> pnl_ticks,
      mfe |-> sim.mfe, mae |-> sim.mae,
      bars_held |-> sim.exit_i - start_i + 1,
      filter_config |-> F, gpt_score |-> cand.gpt_score]

\* the query without the exclusion of candidates that already have a trade
ExecRowsNoExistingCheck(cands, trs, symbols, timeframes) ==
  ByTimestamp({c \in cands :
        /\ c.gpt_score # None
        /\ c.gpt_score >= GPT_SCORE_THRESHOLD
        /\ c.direction \in {"long", "short"}
        /\ c.symbol \in symbols
        /\ c.timeframe \in timeframes})

\* the query without the restriction to the directions long and short
ExecRowsAnyDirection(cands, trs, symbols, timeframes) ==
  LET existing_cand_ids == {t.candidate_id : t \in trs}
  IN ByTimestamp({c \in cands :
        /\ c.gpt_score # None
        /\ c.gpt_score >= GPT_SCORE_THRESHOLD
        /\ c.id \notin existing_cand_ids
        /\ c.symbol \in symbols
        /\ c.timeframe \in timeframes})

\* the candidates execute_new_trades iterates over, in its order
ExecRows(cands, trs, symbols, timeframes) ==
  LET existing_cand_ids == {t.candidate_id : t \in trs}
  IN ByTimestamp({c \in cands :
        /\ c.gpt_score # None
        /\ c.gpt_score >= GPT_SCORE_THRESHOLD
        /\ c.direction \in {"long", "short"}
        /\ c.id \notin existing_cand_ids
        /\ c.symbol \in symbols
        /\ c.timeframe \in timeframes})

\* the loop of execute_new_trades from the k-th row on
RECURSIVE ExecLoop(_, _, _, _)
ExecLoop(rows, k, trs, F) ==
  IF k > Len(rows) THEN trs
  ELSE LET cand == rows[k]
           tick_size == TickSize(cand.symbol)
           df == ExecLoadFrame(cand.symbol, cand.timeframe, cand.timestamp)
           start_i == EntryRowAfter(df, cand.timestamp)
       IN IF start_i = 0 THEN ExecLoop(rows, k + 1, trs, F)
          ELSE ExecLoop(rows, k + 1,
                 trs \cup {MakeTrade(NextId(trs), cand, df, start_i,
                               Simulate(df, start_i, cand.direction, tick_size,
                                        STOP_LOSS_TICKS, TAKE_PROFIT_TICKS),
                               tick_size, F)},
                 F)

\* execute_new_trades on the tables: the trades table after it and its return
ExecuteTable(cands, trs, symbols, timeframes, F) ==
  LET after == ExecLoop(ExecRows(cands, trs, symbols, timeframes), 1, trs, F)
  IN [trades |-> after, created |-> Cardinality(after) - Cardinality(trs)]

\* ------------------------------------------------------- Stage 5: Labeler
\* _atr_at_entry: the ATR of the candle the trade's candidate points to
AtrAtEntry(cands, tr) ==
  LET cs == {c \in cands : c.id = tr.candidate_id}
  IN IF cs = {} THEN None
     ELSE LET cand == CHOOSE c \in cs : TRUE
              ks == {k \in candles : k.id = cand.candle_id}
          IN IF ks = {} THEN None
             ELSE (CHOOSE k \in ks : TRUE).atr

BarsToExitType(tr, target) ==
  IF target /\ tr.exit_reason = "target" THEN tr.bars_held
  ELSE IF ~target /\ tr.exit_reason = "stop" THEN tr.bars_held
  ELSE None

\* a labelling that counts a flat time-cap exit as a loss
LabelWinStrict(tr) ==
  IF tr.exit_reason = "target" THEN TRUE
  ELSE IF tr.exit_reason = "stop" THEN FALSE
  ELSE tr.pnl_ticks > 0

LabelWin(tr) ==
  IF tr.exit_reason = "target" THEN TRUE
  ELSE IF tr.exit_reason = "stop" THEN FALSE
  ELSE tr.pnl_ticks >= 0

\* the Label(...) row label_unlabeled builds for a trade; a ratio x / atr is
\* the pair <<x, atr>>, an absent value the empty tuple
MakeLabel(id, cands, tr) ==
  LET atr_val == AtrAtEntry(cands, tr)
      has_atr == atr_val # None /\ atr_val # 0
      cs == {c \in cands : c.id = tr.candidate_id}
  IN [id |-> id, trade_id |-> tr.id,
      label_type |-> IF LabelWin(tr) THEN "gold" ELSE "hard_negative",
      win |-> LabelWin(tr), pnl |-> tr.pnl,
      mfe_ratio |-> IF has_atr THEN <<tr.mfe, atr_val>> ELSE <<>>,
      mae_ratio |-> IF has_atr THEN <<tr.mae, atr_val>> ELSE <<>>,
      bars_to_target |-> BarsToExitType(tr, TRUE),
      bars_to_stop |-> BarsToExitType(tr, FALSE),
      setup_context |->
        IF cs = {} THEN <<>>
        ELSE LET cand == CHOOSE c \in cs : TRUE
             IN <<[symbol |-> cand.symbol, timeframe |-> cand.timeframe,
                   atr |-> cand.atr, rsi14 |-> cand.rsi14, rsi5 |-> cand.rsi5,
                   rsi2 |-> cand.rsi2, ema_cross |-> cand.ema_cross,
                   volume_surge |-> cand.volume_surge, vwap_dev |-> cand.vwap_dev,
                   gpt_score |-> cand.gpt_score, direction |-> cand.direction]>>]

\* the query without the exclusion of trades that already have a label
LabelRowsNoExistingCheck(trs, lbls) == ByEntryTime(trs)

\* the trades label_unlabeled iterates over, in its order
LabelRows(trs, lbls) ==
  LET existing == {l.trade_id : l \in lbls}
  IN ByEntryTime({t \in trs : t.id \notin existing})

RECURSIVE LabelLoop(_, _, _, _)
LabelLoop(rows, k, cands, lbls) ==
  IF k > Len(rows) THEN lbls
  ELSE LabelLoop(rows, k + 1, cands,
                 lbls \cup {MakeLabel(NextId(lbls), cands, rows[k])})

\* label_unlabeled on the tables: the labels table after it and its return
LabelTable(cands, trs, lbls) ==
  LET after == LabelLoop(LabelRows(trs, lbls), 1, cands, lbls)
  IN [labels |-> after, made |-> Cardinality(after) - Cardinality(lbls)]

\* ----------------------------------------------------- Stage 6: Optimizer
RescanLookbackLimit == 50000

TradesBetween(trs, start, end) ==
  ByEntryTime({t \in trs : t.entry_time >= start /\ t.entry_time < end})

\* the nested loops "for s in symbols: for tf in timeframes" as one list
RECURSIVE SymTfPairs(_, _)
SymTfPairs(symbols, timeframes) ==
  IF symbols = <<>> THEN <<>>
  ELSE [j \in 1..Len(timeframes) |-> <<Head(symbols), timeframes[j]>>]
       \o SymTfPairs(Tail(symbols), timeframes)

RECURSIVE ScanAll(_, _, _, _)
ScanAll(cands, pairs, limit, F) ==
  IF pairs = <<>> THEN cands
  ELSE ScanAll(ScanTable(cands, Head(pairs)[1], Head(pairs)[2], limit, F).cands,
               Tail(pairs), limit, F)

\* step 1 of _rescan_execute_window: the tables after the purge
PurgeWindow(cands, trs, start, end) ==
  LET cand_ids == {c.id : c \in {c \in cands : c.timestamp >= start /\ c.timestamp < end}}
  IN [cands |-> {c \in cands : c.id \notin cand_ids},
      trades |-> {t \in trs : t.candidate_id \notin cand_ids}]

\* _rescan_execute_window run to completion: the tables after it and the list
\* of trades it returns.  Scan and execute run with Config.FILTERS = filt_cfg.
RescanExecute(cands, trs, symbols, timeframes, start, end, filt_cfg) ==
  LET purged == PurgeWindow(cands, trs, start, end)
      scanned == ScanAll(purged.cands, SymTfPairs(symbols, timeframes),
                         RescanLookbackLimit, filt_cfg)
      executed == ExecuteTable(scanned, purged.trades, Range(symbols),
                               Range(timeframes), filt_cfg)
  IN [cands |-> scanned, trades |-> executed.trades,
      ret |-> TradesBetween(executed.trades, start, end)]

\* Config.MIN_TRADES_FOR_OPTIMIZATION
MIN_TRADES_FOR_OPTIMIZATION == 50

\* optimize from its first read of the train window to old_trades_test: the
\* train window is re-evaluated under the active configuration when it holds
\* fewer than MIN_TRADES_FOR_OPTIMIZATION trades, then both windows are read
OptimizeBaseline(cands, trs, symbols, timeframes, train_start, train_end, test_end, F) ==
  LET first == TradesBetween(trs, train_start, train_end)
      after == IF Len(first) < MIN_TRADES_FOR_OPTIMIZATION
               THEN RescanExecute(cands, trs, symbols, timeframes,
                                  train_start, train_end, F)
               ELSE [cands |-> cands, trades |-> trs, ret |-> first]
  IN [cands |-> after.cands, trades |-> after.trades,
      old_trades_train |-> TradesBetween(after.trades, train_start, train_end),
      old_trades_test |-> TradesBetween(after.trades, train_end, test_end)]

\* ------------------------------------------ Stage 7: WalkForwardBacktester
\* _time_has_candles(start, end): some Candle row has its timestamp in
\* [start, end)
TimeHasCandles(cs, start, end) ==
  \E c \in cs : c.timestamp >= start /\ c.timestamp < end

\* one iteration of the loop of run for the fold <<train_start, train_end,
\* test_end>> (test_start = train_end): the tables after it, whether the
\* fold was skipped, and the trade lists its metrics are computed from
BacktestFold(cs, cands, trs, symbols, timeframes, fold, filt_cfg) ==
  IF ~TimeHasCandles(cs, fold[1], fold[3])
  THEN [skipped |-> TRUE, cands |-> cands, trades |-> trs,
        train_trades |-> <<>>, test_trades |-> <<>>]
  ELSE LET tr == RescanExecute(cands, trs, symbols, timeframes,
                               fold[1], fold[2], filt_cfg)
           train_trades == TradesBetween(tr.trades, fold[1], fold[2])
           te == RescanExecute(tr.cands, tr.trades, symbols, timeframes,
                               fold[2], fold[3], filt_cfg)
       IN [skipped |-> FALSE, cands |-> te.cands, trades |-> te.trades,
           train_trades |-> train_trades,
           test_trades |-> TradesBetween(te.trades, fold[2], fold[3])]

\* the loop of run over the folds, latest fold first: the tables after it and
\* the list results
RECURSIVE BacktestLoop(_, _, _, _, _, _, _, _, _)
BacktestLoop(cs, cands, trs, symbols, timeframes, folds, k, filt_cfg, results) ==
  IF k > Len(folds) THEN [cands |-> cands, trades |-> trs, results |-> results]
  ELSE LET f == BacktestFold(cs, cands, trs, symbols, timeframes, folds[k], filt_cfg)
       IN BacktestLoop(cs, f.cands, f.trades, symbols, timeframes, folds, k + 1,
                       filt_cfg,
                       IF f.skipped THEN results
                       ELSE Append(results, [fold |-> folds[k],
                                             train |-> f.train_trades,
                                             test |-> f.test_trades]))

\* WalkForwardBacktester.run: the tables after it, steps = len(results), the
\* test P&L total in eighths of a point, and results
BacktestRun(cs, cands, trs, symbols, timeframes, folds, filt_cfg) ==
  LET l == BacktestLoop(cs, cands, trs, symbols, timeframes, folds, 1, filt_cfg, <<>>)
      SumPnl[n \in 0..Len(l.results)] ==
        IF n = 0 THEN 0
        ELSE SumPnl[n - 1]
             + (LET ts == l.results[n].test
                    S[j \in 0..Len(ts)] == IF j = 0 THEN 0 ELSE S[j - 1] + ts[j].pnl
                IN S[Len(ts)])
  IN [cands |-> l.cands, trades |-> l.trades, steps |-> Len(l.results),
      test_total_pnl |-> SumPnl[Len(l.results)], detail |-> l.results]

\* ------------------------------------------- IEEE-754 double arithmetic
\* The win rates the Optimizer compares are Python floats.  A positive double
\* is [zero |-> FALSE, exp |-> e, bits |-> b]: b the 53 bits of its
\* significand, most significant first (b[1] = 1), its value 1.b[2]..b[53]
\* times 2^e.  Operations round to nearest, ties to even.
MantissaBits == 53
FZero == [zero |-> TRUE, exp |-> 0, bits |-> <<>>]

\* the next n bits of the binary expansion of r / c (0 <= r < c)
RECURSIVE DivBits(_, _, _)
DivBits(r, c, n) ==
  IF n = 0 THEN <<>>
  ELSE IF 2 * r >= c THEN <<1>> \o DivBits(2 * r - c, c, n - 1)
  ELSE <<0>> \o DivBits(2 * r, c, n - 1)

\* the remainder left after those n bits
RECURSIVE DivRem(_, _, _)
DivRem(r, c, n) ==
  IF n = 0 THEN r
  ELSE IF 2 * r >= c THEN DivRem(2 * r - c, c, n - 1)
  ELSE DivRem(2 * r, c, n - 1)

\* bits + 1; one bit longer when every bit was 1
RECURSIVE BitsInc(_)
BitsInc(bits) ==
  IF bits = <<>> THEN <<1>>
  ELSE LET n == Len(bits)
       IN IF bits[n] = 0 THEN [bits EXCEPT ![n] = 1]
          ELSE BitsInc(SubSeq(bits, 1, n - 1)) \o <<0>>

\* the double with exponent exp and significand bits, rounded up if up
FRound(exp, bits, up) ==
  IF ~up THEN [zero |-> FALSE, exp |-> exp, bits |-> bits]
  ELSE LET b == BitsInc(bits)
       IN IF Len(b) > MantissaBits
          THEN [zero |-> FALSE, exp |-> exp + 1, bits |-> SubSeq(b, 1, MantissaBits)]
          ELSE [zero |-> FALSE, exp |-> exp, bits |-> b]

\* the least s with w * 2^s >= c
RECURSIVE NormShift(_, _)
NormShift(w, c) == IF w >= c THEN 0 ELSE 1 + NormShift(2 * w, c)

RECURSIVE Pow2(_)
Pow2(n) == IF n = 0 THEN 1 ELSE 2 * Pow2(n - 1)

\* the float w / c of two ints, 0 <= w <= c, c > 0 (true division)
FloatDiv(w, c) ==
  IF w = 0 THEN FZero
  ELSE LET s == NormShift(w, c)
           r0 == w * Pow2(s) - c
           bits == <<1>> \o DivBits(r0, c, MantissaBits - 1)
           rem == DivRem(r0, c, MantissaBits - 1)
       IN FRound(-s, bits, 2 * rem > c \/ (2 * rem = c /\ bits[MantissaBits] = 1))

\* the sum of two bit strings of equal length, one bit longer on carry-out
RECURSIVE BitsAdd(_, _, _)
BitsAdd(a, b, carry) ==
  IF a = <<>> THEN (IF carry = 1 THEN <<1>> ELSE <<>>)
  ELSE LET n == Len(a)
           t == a[n] + b[n] + carry
       IN IF t >= 2
          THEN BitsAdd(SubSeq(a, 1, n - 1), SubSeq(b, 1, n - 1), 1) \o <<t - 2>>
          ELSE BitsAdd(SubSeq(a, 1, n - 1), SubSeq(b, 1, n - 1), 0) \o <<t>>

Zeros(n) == [j \in 1..n |-> 0]

\* x + y for two non-negative doubles
FloatAdd(x, y) ==
  IF x.zero THEN y
  ELSE IF y.zero THEN x
  ELSE LET big == IF x.exp >= y.exp THEN x ELSE y
           small == IF x.exp >= y.exp THEN y ELSE x
           d == big.exp - small.exp
           sum == BitsAdd(big.bits \o Zeros(d), Zeros(d) \o small.bits, 0)
           carried == Len(sum) > MantissaBits + d
           kept == SubSeq(sum, 1, MantissaBits)
           rest == SubSeq(sum, MantissaBits + 1, Len(sum))
           up == /\ rest # <<>>
                 /\ rest[1] = 1
                 /\ \/ \E j \in 2..Len(rest) : rest[j] = 1
                    \/ kept[MantissaBits] = 1
       IN FRound(IF carried THEN big.exp + 1 ELSE big.exp, kept, up)

\* x >= y for two non-negative doubles
FloatGE(x, y) ==
  IF y.zero THEN TRUE
  ELSE IF x.zero THEN FALSE
  ELSE IF x.exp # y.exp THEN x.exp > y.exp
  ELSE \/ x.bits = y.bits
       \/ \E j \in 1..MantissaBits :
            /\ x.bits[j] > y.bits[j]
            /\ \A i \in 1..(j - 1) : x.bits[i] = y.bits[i]

\* ---------------------------------- Stage 6: Optimizer, configuration rows
\* _metrics_from_trades as far as optimize reads it: the trade count, the
\* number of trades with pnl_ticks >= 0 (win_rate = wins / count), the P&L
\* total in eighths of a point, and the value of the target function of the
\* search (win_rate * 100 + total_pnl + 20 * sharpe - 5 * max_drawdown)
Metrics(count, wins, total_pnl, score) ==
  [count |-> count, wins |-> wins, total_pnl |-> total_pnl, score |-> score]

\* the metrics of an empty trade list
ZeroMetrics == Metrics(0, 0, 0, 0)

\* the drawdown loop body with the peak left at its initial 0.0
DrawdownStepFixedPeak(st, p) ==
  LET cum == st.cum + p
  IN [cum |-> cum, peak |-> st.peak, max_dd |-> Max(st.max_dd, st.peak - cum)]

\* the body of "for p in pnls": cum += p; peak = max(peak, cum);
\* max_dd = max(max_dd, peak - cum)
DrawdownStep(st, p) ==
  LET cum == st.cum + p
      peak == Max(st.peak, cum)
  IN [cum |-> cum, peak |-> peak, max_dd |-> Max(st.max_dd, peak - cum)]

RECURSIVE DrawdownLoop(_, _, _)
DrawdownLoop(pnls, k, st) ==
  IF k > Len(pnls) THEN st
  ELSE DrawdownLoop(pnls, k + 1, DrawdownStep(st, pnls[k]))

\* m['max_drawdown'] of _metrics_from_trades for the list trs, the P&L in
\* eighths of a point (a trade's pnl is a whole number of ticks times the
\* tick size, so the float sums are exact)
MaxDrawdown(trs) ==
  IF trs = <<>> THEN 0
  ELSE DrawdownLoop([k \in 1..Len(trs) |-> trs[k].pnl], 1,
                    [cum |-> 0, peak |-> 0, max_dd |-> 0]).max_dd

\* m['win_rate'], a float
WinRate(m) == IF m.count = 0 THEN FZero ELSE FloatDiv(m.wins, m.count)

\* the variant with rsi14_buy left unclamped
NeighborConfigUnclampedBuy(base, da, db, ds, ef, es) ==
  [base EXCEPT !.atr_min = Max(4, base.atr_min + da),
               !.atr_max = Max(base.atr_min + 8, base.atr_max + da),
               !.rsi14_buy = base.rsi14_buy + db,
               !.rsi14_sell = Min(95, Max(50, base.rsi14_sell + ds)),
               !.ema_fast = Max(3, base.ema_fast + ef),
               !.ema_slow = Max(6, base.ema_slow + es)]

\* one FilterConfig of _neighbor_configs: base perturbed by the five steps
NeighborConfig(base, da, db, ds, ef, es) ==
  [base EXCEPT !.atr_min = Max(4, base.atr_min + da),
               !.atr_max = Max(base.atr_min + 8, base.atr_max + da),
               !.rsi14_buy = Max(5, Min(50, base.rsi14_buy + db)),
               !.rsi14_sell = Min(95, Max(50, base.rsi14_sell + ds)),
               !.ema_fast = Max(3, base.ema_fast + ef),
               !.ema_slow = Max(6, base.ema_slow + es)]

\* the variants the search visits: of the 243 perturbations the first and the
\* last generated, then the base configuration, in the order of the list
SearchConfigs(base) ==
  <<NeighborConfig(base, -4, -5, -5, -2, -4),
    NeighborConfig(base, 4, 5, 5, 2, 4),
    base>>

\* the perturbation lists, the ATR steps in eighths of a point
atr_steps == <<-4, 0, 4>>
rsi14_buy_steps == <<-5, 0, 5>>
rsi14_sell_steps == <<-5, 0, 5>>
ema_fast_steps == <<-2, 0, 2>>
ema_slow_steps == <<-4, 0, 4>>

\* the number of variants the five nested loops append
GridSize ==
  Len(atr_steps) * Len(rsi14_buy_steps) * Len(rsi14_sell_steps)
    * Len(ema_fast_steps) * Len(ema_slow_steps)

\* _neighbor_configs(base): the five loops nested in the order atr,
\* rsi14_buy, rsi14_sell, ema_fast, ema_slow (the last one innermost), then
\* the base configuration appended
NeighborConfigs(base) ==
  [n \in 1..(GridSize + 1) |->
     IF n = GridSize + 1 THEN base
     ELSE LET j == n - 1
          IN NeighborConfig(base,
                            atr_steps[((j \div 81) % 3) + 1],
                            rsi14_buy_steps[((j \div 27) % 3) + 1],
                            rsi14_sell_steps[((j \div 9) % 3) + 1],
                            ema_fast_steps[((j \div 3) % 3) + 1],
                            ema_slow_steps[(j % 3) + 1])]

\* best_score = -1e9
BestScoreInit == -1000000000

\* max(20, int(0.6 * old_metrics_train['count']))
MinVariantCount(old_count) == Max(20, (6 * old_count) \div 10)

\* the body of the search loop for the variant cfg with metrics m
SearchUpdate(o, cfg, m) ==
  IF m.count >= MinVariantCount(o.old_train.count) /\ m.score > o.best_score
  THEN [o EXCEPT !.best_score = m.score, !.best_cfg = cfg,
                 !.best_metrics_train = m, !.best_k = o.k, !.k = o.k + 1]
  ELSE [o EXCEPT !.k = o.k + 1]

\* improved: new win_rate >= old win_rate + 0.03 and new total_pnl >= old
Improved(new, old) ==
  /\ FloatGE(WinRate(new), FloatAdd(WinRate(old), FloatDiv(3, 100)))
  /\ new.total_pnl >= old.total_pnl

\* statistical_significance, in tenths
SIGNIFICANCE_HIGH == 9
SIGNIFICANCE_LOW == 5

\* a report that is approved whenever approval was requested
MakeReportApproveAlways(id, o, new_test, improved) ==
  [id |-> id, old_config |-> FILTERS, new_config |-> o.best_cfg,
   old_results |-> [train |-> o.old_train, test |-> o.old_test],
   new_results |-> [train |-> o.best_metrics_train, test |-> new_test],
   statistical_significance |-> IF improved THEN SIGNIFICANCE_HIGH ELSE SIGNIFICANCE_LOW,
   approved |-> o.approve,
   approved_by |-> IF o.approve THEN "auto" ELSE NoneStr,
   rejection_reason |-> IF improved THEN NoneStr ELSE "Insufficient improvement on TEST"]

\* the OptimizationReport(...) row optimize adds
MakeReport(id, o, new_test, improved) ==
  [id |-> id, old_config |-> FILTERS, new_config |-> o.best_cfg,
   old_results |-> [train |-> o.old_train, test |-> o.old_test],
   new_results |-> [train |-> o.best_metrics_train, test |-> new_test],
   statistical_significance |-> IF improved THEN SIGNIFICANCE_HIGH ELSE SIGNIFICANCE_LOW,
   approved |-> o.approve /\ improved,
   approved_by |-> IF o.approve /\ improved THEN "auto" ELSE NoneStr,
   rejection_reason |-> IF improved THEN NoneStr ELSE "Insufficient improvement on TEST"]

\* a promotion that leaves the earlier rows active
SaveFiltersKeepActive(fh, filters, reason) ==
  fh \cup {[id |-> NextId(fh), config |-> filters, reason |-> reason,
            is_active |-> TRUE]}

\* the filter_history table after Config.save_filters_to_db(filters, reason)
SaveFiltersToDb(fh, filters, reason) ==
  {[h EXCEPT !.is_active = FALSE] : h \in fh}
    \cup {[id |-> NextId(fh), config |-> filters, reason |-> reason,
           is_active |-> TRUE]}

\* the filter_history table after approve_report(rep.id, approve, reason)
ApproveRows(rep, fh, approve, reason) ==
  IF approve
  THEN SaveFiltersToDb(fh, rep.new_config, IF reason = "" THEN "Human approved" ELSE reason)
  ELSE fh

\* the report row after approve_report(rep.id, approve, reason)
ApprovedReport(rep, approve, reason) ==
  [rep EXCEPT !.approved = approve,
              !.approved_by = "human",
              !.rejection_reason = IF approve THEN NoneStr
                                   ELSE IF reason = "" THEN "Rejected by human"
                                   ELSE reason]

\* no _rescan_execute_window call is followed
NoRun ==
  [pc |-> "idle", start |-> 0, end |-> 0, filt_cfg |-> DefaultFilters,
   old_cfg |-> DefaultFilters,
   before |-> [cands |-> {}, trades |-> {}, FILTERS |-> DefaultFilters],
   made |-> {}, ret |-> <<>>, overlapped |-> FALSE]
\* the calls followed at the same time
EvalRuns == {1, 2}
NoRuns == [r \in EvalRuns |-> NoRun]

\* no optimize call is running
NoOpt ==
  [pc |-> "idle", approve |-> FALSE, old_train |-> ZeroMetrics,
   old_test |-> ZeroMetrics, variants |-> <<>>, k |-> 0,
   best_cfg |-> DefaultFilters, best_score |-> BestScoreInit,
   best_metrics_train |-> ZeroMetrics, best_k |-> 0]

\* ---------------------------------------------------------------- actions
ScanLookbackLimit == 3000
\* the (symbols, timeframes) arguments and the windows [start, end) tried
ExecArgs == {<<(<<"ES">>), (<<"1m">>)>>, <<(<<"ES", "YM">>), (<<"1m", "5m">>)>>,
             <<(<<"YM">>), (<<"1m", "5m">>)>>, <<(<<"ES">>), (<<"5m">>)>>}
RescanArgs == {<<(<<"ES">>), (<<"1m">>)>>, <<(<<"ES", "YM">>), (<<"1m", "5m">>)>>}
Windows == {<<1, 4>>, <<4, 7>>}
TestConfigs == {DefaultFilters, [DefaultFilters EXCEPT !.atr_min = 12, !.atr_max = 124]}

NoWalk ==
  [df |-> <<>>, start_i |-> 0, direction |-> NoneStr, symbol |-> NoneStr,
   i |-> 0, mfe |-> 0, mae |-> 0, ret |-> <<>>]

Init ==
  /\ candles = {}
  /\ candidates = {}
  /\ trades = {}
  /\ labels = {}
  /\ FILTERS = DefaultFilters
  /\ walk = NoWalk
  /\ filter_history = {}
  /\ reports = {}
  /\ opt = NoOpt
  /\ runs = NoRuns

RECURSIVE SaveAll(_, _, _, _)
SaveAll(rows, series, ts, shape) ==
  IF series = {} THEN rows
  ELSE LET k == CHOOSE k \in series : TRUE
       IN SaveAll(Save(rows, k[1], k[2], FetchedBar(k[1], ts, shape)),
                  series \ {k}, ts, shape)

\* collect_historical() over all symbols and timeframes, the provider
\* returning one new bar of the same shape for every series it has
Collect ==
  LET ts == Cardinality(candles) \div Cardinality(StoredSeries) + 1
  IN /\ ts <= MaxBars
     /\ \E shape \in ShapesAt(ts) :
          candles' = SaveAll(candles, StoredSeries, ts, shape)
     /\ UNCHANGED <<gov, candidates, trades, labels, FILTERS, walk>>

\* TripleRSIFilter.scan(symbol, timeframe)
Scan(symbol, timeframe) ==
  LET r == ScanTable(candidates, symbol, timeframe, ScanLookbackLimit, FILTERS)
  IN /\ Cardinality(r.cands) <= MaxCands
     /\ candidates' = r.cands
     /\ UNCHANGED <<gov, candles, trades, labels, FILTERS, walk>>

\* GPTDecision.score_all_unscored, the scorer answering answer[id] for each
\* unscored candidate
ScoreAllUnscored ==
  LET unscored == {c \in candidates : c.gpt_score = None}
  IN /\ \E answer \in [{c.id : c \in unscored} -> ScorerAnswers] :
          candidates' = {IF c \in unscored THEN ScoreCandidate(c, answer[c.id]) ELSE c :
                          c \in candidates}
     /\ UNCHANGED <<gov, candles, trades, labels, FILTERS, walk>>

\* PaperExecutor.execute_new_trades(symbols, timeframes)
ExecuteNewTrades(symbols, timeframes) ==
  LET r == ExecuteTable(candidates, trades, Range(symbols), Range(timeframes), FILTERS)
  IN /\ trades' = r.trades
     /\ UNCHANGED <<gov, candles, candidates, labels, FILTERS, walk>>

\* Labeler.label_unlabeled()
LabelUnlabeled ==
  LET r == LabelTable(candidates, trades, labels)
  IN /\ labels' = r.labels
     /\ UNCHANGED <<gov, candles, candidates, trades, FILTERS, walk>>

\* Optimizer._rescan_execute_window(symbols, timeframes, start, end, filt_cfg)
\* returning normally: Config.FILTERS is swapped for the call and restored
RescanExecuteWindow(symbols, timeframes, start, end, filt_cfg) ==
  LET r == RescanExecute(candidates, trades, symbols, timeframes, start, end, filt_cfg)
  IN /\ start < end
     /\ Cardinality(r.cands) <= MaxCands
     /\ candidates' = r.cands
     /\ trades' = r.trades
     /\ UNCHANGED <<gov, candles, labels, FILTERS, walk>>

\* Controller.cmd_set_filters(js_cfg)
SetFilters(new_cfg) ==
  /\ opt.pc = "idle"
  /\ FILTERS' = new_cfg
  /\ UNCHANGED <<pipeline, gov>>

\* execute_new_trades(symbols, timeframes) stopped after the commit of its
\* k-th row, with rows left to process
ExecuteInterrupted(symbols, timeframes, k) ==
  LET rows == ExecRows(candidates, trades, Range(symbols), Range(timeframes))
  IN /\ k < Len(rows)
     /\ trades' = ExecLoop(Limit(rows, k), 1, trades, FILTERS)
     /\ UNCHANGED <<gov, candles, candidates, labels, FILTERS, walk>>

\* label_unlabeled() stopped after the commit of its k-th row, with rows
\* left to process
LabelInterrupted(k) ==
  LET rows == LabelRows(trades, labels)
  IN /\ k < Len(rows)
     /\ labels' = LabelLoop(Limit(rows, k), 1, candidates, labels)
     /\ UNCHANGED <<gov, candles, candidates, trades, FILTERS, walk>>

Next ==
  \/ Collect
  \/ \E s \in SYMBOLS, tf \in TIMEFRAMES : Scan(s, tf)
  \/ ScoreAllUnscored
  \/ \E a \in ExecArgs : ExecuteNewTrades(a[1], a[2])
  \/ LabelUnlabeled
  \/ \E a \in RescanArgs, w \in Windows, cfg \in TestConfigs :
       RescanExecuteWindow(a[1], a[2], w[1], w[2], cfg)
  \/ \E a \in ExecArgs, k \in 1..MaxCands : ExecuteInterrupted(a[1], a[2], k)
  \/ \E k \in 1..MaxCands : LabelInterrupted(k)
  \/ \E cfg \in TestConfigs : SetFilters(cfg)

Spec == Init /\ [][Next]_vars

\* --------------------------------------- the exit walk followed bar by bar
\* The frames handed to _simulate: start_i - 1 bars up to the candidate's own,
\* then len bars from the entry bar on.  All are quiet (no bound touched)
\* except the pos-th from the entry bar, of kind k1, and the one after it, of
\* kind k2.  A bar's high, low and close are offsets from the entry price in
\* ticks t; a quiet bar's close depends on its timestamp.
WalkKinds == {"quiet", "near", "upT", "up8", "dnS", "dnT", "wide", "wideL", "wideS"}
SecondKinds == {"quiet", "upT", "dnS"}
WalkLens == {1, 2} \cup ((MAX_HOLD_BARS - 1)..(MAX_HOLD_BARS + MaxExtra))
EventPos == {1, 2, MAX_HOLD_BARS, MAX_HOLD_BARS + 1}

WalkBar(kind, ts, t, is_entry) ==
  [timestamp |-> ts,
   open |-> IF is_entry THEN BasePrice ELSE BasePrice + t,
   high |-> CASE kind \in {"upT", "wide", "wideL"} -> BasePrice + 16 * t
              [] kind \in {"up8", "wideS"} -> BasePrice + 8 * t
              [] kind = "near" -> BasePrice + 8 * t - 1
              [] kind = "quiet" -> BasePrice + 3 * t
              [] OTHER -> BasePrice + t,
   low |-> CASE kind \in {"dnT", "wide", "wideS"} -> BasePrice - 16 * t
             [] kind \in {"dnS", "wideL"} -> BasePrice - 8 * t
             [] kind = "near" -> BasePrice - 8 * t + 1
             [] kind = "quiet" -> BasePrice - 2 * t
             [] OTHER -> BasePrice - t,
   close |-> IF kind = "quiet" THEN BasePrice + ((ts % 4) * t) \div 2 - t
             ELSE BasePrice]

WalkFrame(start_i, len, pos, k1, k2, t) ==
  [j \in 1..(start_i - 1 + len) |->
     LET w == j - start_i + 1
     IN WalkBar(IF w = pos THEN k1 ELSE IF w = pos + 1 THEN k2 ELSE "quiet",
                j, t, w = 1)]

InitSim ==
  /\ candles = {}
  /\ candidates = {}
  /\ trades = {}
  /\ labels = {}
  /\ FILTERS = DefaultFilters
  /\ filter_history = {}
  /\ reports = {}
  /\ opt = NoOpt
  /\ runs = NoRuns
  /\ \E start_i \in {1, 2}, len \in WalkLens, pos \in EventPos,
        k1 \in WalkKinds, k2 \in SecondKinds,
        direction \in {"long", "short"}, symbol \in {"ES", "YM"} :
       /\ pos <= len
       /\ walk = [df |-> WalkFrame(start_i, len, pos, k1, k2, TickSize(symbol)),
                  start_i |-> start_i, direction |-> direction, symbol |-> symbol,
                  i |-> start_i, mfe |-> 0, mae |-> 0, ret |-> <<>>]

WalkEntry == walk.df[walk.start_i].open
WalkStop == StopPrice(WalkEntry, walk.direction, TickSize(walk.symbol), STOP_LOSS_TICKS)
WalkTarget == TargetPrice(WalkEntry, walk.direction, TickSize(walk.symbol), TAKE_PROFIT_TICKS)

\* one iteration of the for loop of _simulate
WalkBarStep ==
  /\ walk.ret = <<>>
  /\ walk.i <= LastWalkIndex(walk.df, walk.start_i)
  /\ LET b == SimBar(walk.direction, WalkEntry, WalkStop, WalkTarget,
                     walk.mfe, walk.mae, walk.df[walk.i])
     IN walk' = IF b.exit # NoneStr
                THEN [walk EXCEPT !.mfe = b.mfe, !.mae = b.mae,
                        !.ret = <<SimExit(walk.i, b.exit, WalkStop, WalkTarget,
                                          b.mfe, b.mae)>>]
                ELSE [walk EXCEPT !.mfe = b.mfe, !.mae = b.mae, !.i = walk.i + 1]
  /\ UNCHANGED <<gov, candles, candidates, trades, labels, FILTERS>>

\* the return after the loop
WalkCapReturn ==
  /\ walk.ret = <<>>
  /\ walk.i > LastWalkIndex(walk.df, walk.start_i)
  /\ walk' = [walk EXCEPT !.ret = <<SimCap(walk.df, walk.start_i, walk.mfe, walk.mae)>>]
  /\ UNCHANGED <<gov, candles, candidates, trades, labels, FILTERS>>

\* the Trade execute_new_trades stores for the walk once _simulate has returned
WalkDone == walk.ret # <<>>
WalkTrade ==
  MakeTrade(1, [id |-> 1, symbol |-> walk.symbol, direction |-> walk.direction,
                gpt_score |-> GPT_SCORE_THRESHOLD],
            walk.df, walk.start_i, walk.ret[1], TickSize(walk.symbol), FILTERS)

\* execute_new_trades adds the Trade built from the returned simulation
WalkStore ==
  /\ WalkDone
  /\ trades = {}
  /\ trades' = {WalkTrade}
  /\ UNCHANGED <<gov, candles, candidates, labels, FILTERS, walk>>

NextSim == WalkBarStep \/ WalkCapReturn \/ WalkStore \/ LabelUnlabeled

SimSpec == InitSim /\ [][NextSim]_vars

\* the bar-by-bar walk returns what the executor's call of _simulate returns
WalkAgreesWithSimulate ==
  WalkDone =>
    walk.ret[1] = Simulate(walk.df, walk.start_i, walk.direction,
                           TickSize(walk.symbol), STOP_LOSS_TICKS, TAKE_PROFIT_TICKS)

\* ------------------------ the Optimizer's governance of the configuration
\* The metrics optimize computes from the trades its window re-evaluations
\* return: of the baseline on the train and test windows, of a variant on the
\* train window, and of the selected variant on the test window.
TrainBaselines == {Metrics(34, 20, 0, 1), Metrics(50, 30, 0, 1)}
\* AllStopped: 20 ES trades, each stopped out 8 ticks down: the P&Ls are equal,
\* pstdev is 0 and replaced by 1e-9, sharpe = -2.0 / 1e-9, and the target
\* function is about -4e10, below the initial best_score (the value kept
\* here is a stand-in below -1e9 that fits the model's integers)
AllStopped == Metrics(20, 0, -320, -2000000000)
VariantMetrics ==
  {Metrics(19, 12, 0, 2), Metrics(20, 12, 0, 1), Metrics(30, 20, 8, 2), AllStopped}
TestBaselines == {ZeroMetrics, Metrics(5, 2, 0, 0)}
TestVariants ==
  {Metrics(100, 2, 0, 0), Metrics(100, 3, 0, 0), Metrics(100, 43, 0, 0),
   Metrics(100, 44, 0, 0), Metrics(100, 44, -2, 0)}
ReasonArgs == {"", "reviewed"}

\* optimize(approve=approve) up to the start of the search loop
OptimizeStart(approve) ==
  /\ opt.pc = "idle"
  /\ Cardinality(reports) < MaxReports
  /\ Cardinality(filter_history) < MaxPromotions
  /\ \E old_train \in TrainBaselines, old_test \in TestBaselines :
       opt' = [pc |-> "search", approve |-> approve, old_train |-> old_train,
               old_test |-> old_test, variants |-> SearchConfigs(FILTERS), k |-> 1,
               best_cfg |-> FILTERS, best_score |-> BestScoreInit,
               best_metrics_train |-> old_train, best_k |-> 0]
  /\ UNCHANGED <<pipeline, FILTERS, filter_history, reports, runs>>

\* one iteration of the search loop of optimize
SearchStep ==
  /\ opt.pc = "search"
  /\ opt.k <= Len(opt.variants)
  /\ \E m \in VariantMetrics : opt' = SearchUpdate(opt, opt.variants[opt.k], m)
  /\ UNCHANGED <<pipeline, FILTERS, filter_history, reports, runs>>

\* optimize after the search loop: the test comparison, the report and, if
\* approved, the promotion
TestValidate ==
  /\ opt.pc = "search"
  /\ opt.k > Len(opt.variants)
  /\ \E new_test \in TestVariants :
       LET improved == Improved(new_test, opt.old_test)
           report == MakeReport(NextId(reports), opt, new_test, improved)
       IN /\ reports' = reports \cup {report}
          /\ IF opt.approve /\ improved
             THEN /\ filter_history' = SaveFiltersToDb(filter_history, report.new_config,
                                                       "Auto-approved optimization")
                  /\ FILTERS' = report.new_config
             ELSE UNCHANGED <<filter_history, FILTERS>>
  /\ opt' = NoOpt
  /\ UNCHANGED <<pipeline, runs>>

\* Optimizer.approve_report(report_id, approve, reason) for an existing report
ApproveReport(report_id, approve, reason) ==
  /\ opt.pc = "idle"
  /\ \E rep \in reports :
       /\ rep.id = report_id
       /\ approve => Cardinality(filter_history) < MaxPromotions
       /\ reports' = (reports \ {rep}) \cup {ApprovedReport(rep, approve, reason)}
       /\ filter_history' = ApproveRows(rep, filter_history, approve, reason)
       /\ FILTERS' = IF approve THEN rep.new_config ELSE FILTERS
  /\ UNCHANGED <<pipeline, opt, runs>>

\* a new process: the class attribute Config.FILTERS is FilterConfig() again
\* (load_filters_from_db has no caller)
Restart ==
  /\ opt.pc = "idle"
  /\ FILTERS' = DefaultFilters
  /\ UNCHANGED <<pipeline, gov>>

NextOpt ==
  \/ \E approve \in BOOLEAN : OptimizeStart(approve)
  \/ SearchStep
  \/ TestValidate
  \/ \E r \in 1..MaxReports, approve \in BOOLEAN, reason \in ReasonArgs :
       ApproveReport(r, approve, reason)
  \/ \E cfg \in TestConfigs : SetFilters(cfg)
  \/ Restart

OptSpec == Init /\ [][NextOpt]_vars

\* --------------------------------------- execution over a collected history
\* The candle store after n collections, the bars at timestamps 4 and 6
\* taking the shapes s4 and s6
RECURSIVE ExecCandles(_, _, _)
ExecCandles(n, s4, s6) ==
  IF n = 0 THEN {}
  ELSE SaveAll(ExecCandles(n - 1, s4, s6), StoredSeries, n,
               IF n = 4 THEN s4 ELSE IF n = 6 THEN s6 ELSE "flat")

InitExec ==
  /\ \E n \in {4, 5, 6}, s4 \in Shapes, s6 \in Shapes :
       candles = ExecCandles(n, s4, s6)
  /\ candidates = {}
  /\ trades = {}
  /\ labels = {}
  /\ FILTERS = DefaultFilters
  /\ walk = NoWalk
  /\ filter_history = {}
  /\ reports = {}
  /\ opt = NoOpt
  /\ runs = NoRuns

NextExec ==
  \/ \E s \in SYMBOLS, tf \in TIMEFRAMES : Scan(s, tf)
  \/ ScoreAllUnscored
  \/ \E a \in ExecArgs : ExecuteNewTrades(a[1], a[2])
  \/ \E a \in ExecArgs, k \in 1..MaxCands : ExecuteInterrupted(a[1], a[2], k)

ExecSpec == InitExec /\ [][NextExec]_vars

\* ------------------------------------------ optimize, statement by statement
\* An optimize call followed through its phases.  opt carries in addition
\* evals, the window re-evaluations made so far as <<window, configuration>>
\* pairs, the test metrics and the decision once computed, and the id of the
\* report once added.
NoPhase ==
  [pc |-> "idle", approve |-> FALSE, old_train |-> ZeroMetrics,
   old_test |-> ZeroMetrics, variants |-> <<>>, k |-> 0,
   best_cfg |-> DefaultFilters, best_score |-> BestScoreInit,
   best_metrics_train |-> ZeroMetrics, best_k |-> 0,
   evals |-> <<>>, new_test |-> ZeroMetrics, improved |-> FALSE, report_id |-> 0]

InitPhase ==
  /\ candles = {}
  /\ candidates = {}
  /\ trades = {}
  /\ labels = {}
  /\ FILTERS = DefaultFilters
  /\ walk = NoWalk
  /\ filter_history = {}
  /\ reports = {}
  /\ opt = NoPhase
  /\ runs = NoRuns

\* the configuration the test window is re-evaluated with: the baseline
TestConfigBaseline(o) == o.variants[Len(o.variants)]

\* the configuration the test window is re-evaluated with: best_cfg
TestConfig(o) == o.best_cfg

\* TRAIN_BASELINE: the train window is read, re-evaluated under the active
\* configuration if it holds too few trades, then the test window is read
PhaseBaseline(approve) ==
  /\ opt.pc \in {"idle", "done"}
  /\ Cardinality(reports) < MaxReports
  /\ Cardinality(filter_history) < MaxPromotions
  /\ \E old_train \in TrainBaselines, old_test \in TestBaselines :
       opt' = [NoPhase EXCEPT
                 !.pc = "search", !.approve = approve, !.old_train = old_train,
                 !.old_test = old_test, !.variants = SearchConfigs(FILTERS),
                 !.k = 1, !.best_cfg = FILTERS, !.best_metrics_train = old_train,
                 !.evals = IF old_train.count < MIN_TRADES_FOR_OPTIMIZATION
                           THEN <<(<<"train", FILTERS>>)>> ELSE <<>>]
  /\ UNCHANGED <<pipeline, FILTERS, filter_history, reports, runs>>

\* SEARCH, one iteration: the train window is re-evaluated under the variant
PhaseSearch ==
  /\ opt.pc = "search"
  /\ opt.k <= Len(opt.variants)
  /\ \E m \in VariantMetrics :
       opt' = [SearchUpdate(opt, opt.variants[opt.k], m) EXCEPT
                 !.evals = Append(opt.evals, <<"train", opt.variants[opt.k]>>)]
  /\ UNCHANGED <<pipeline, FILTERS, filter_history, reports, runs>>

\* TEST_VALIDATE: the loop is over; the test window is re-evaluated and the
\* decision computed
PhaseTest ==
  /\ opt.pc = "search"
  /\ opt.k > Len(opt.variants)
  /\ \E new_test \in TestVariants :
       opt' = [opt EXCEPT !.pc = "report",
                          !.evals = Append(opt.evals, <<"test", TestConfig(opt)>>),
                          !.new_test = new_test,
                          !.improved = Improved(new_test, opt.old_test)]
  /\ UNCHANGED <<pipeline, FILTERS, filter_history, reports, runs>>

\* REPORT: session.add(report); session.commit()
PhaseReport ==
  /\ opt.pc = "report"
  /\ LET report == MakeReport(NextId(reports), opt, opt.new_test, opt.improved)
     IN /\ reports' = reports \cup {report}
        /\ opt' = [opt EXCEPT !.pc = IF opt.approve /\ opt.improved
                                      THEN "promote" ELSE "done",
                              !.report_id = report.id]
  /\ UNCHANGED <<pipeline, FILTERS, filter_history, runs>>

\* if approve and improved: Config.save_filters_to_db(report.new_config)
PhasePromote ==
  /\ opt.pc = "promote"
  /\ \E report \in reports :
       /\ report.id = opt.report_id
       /\ filter_history' = SaveFiltersToDb(filter_history, report.new_config,
                                            "Auto-approved optimization")
       /\ FILTERS' = report.new_config
  /\ opt' = [opt EXCEPT !.pc = "done"]
  /\ UNCHANGED <<pipeline, reports, runs>>

NextPhase ==
  \/ \E approve \in BOOLEAN : PhaseBaseline(approve)
  \/ PhaseSearch
  \/ PhaseTest
  \/ PhaseReport
  \/ PhasePromote

PhaseSpec == InitPhase /\ [][NextPhase]_vars

\* -------------------------------------------- the neighborhood of a baseline
\* Baseline configurations for _neighbor_configs: values inside the bounds,
\* on them, within one step of them and outside them
InitNeighbors ==
  /\ candles = {}
  /\ candidates = {}
  /\ trades = {}
  /\ labels = {}
  /\ \E amin \in {0, 4, 8}, amax \in {4, 120}, buy \in {0, 7, 30, 60},
        sell \in {40, 70, 93, 100}, ef \in {1, 4, 9}, es \in {2, 9, 21} :
       FILTERS = [DefaultFilters EXCEPT !.atr_min = amin, !.atr_max = amax,
                                        !.rsi14_buy = buy, !.rsi14_sell = sell,
                                        !.ema_fast = ef, !.ema_slow = es]
  /\ walk = NoWalk
  /\ filter_history = {}
  /\ reports = {}
  /\ opt = NoOpt
  /\ runs = NoRuns

\* the call self._neighbor_configs(Config.FILTERS) of optimize
GenerateNeighbors ==
  /\ opt.pc = "idle"
  /\ opt' = [NoOpt EXCEPT !.pc = "generated", !.variants = NeighborConfigs(FILTERS)]
  /\ UNCHANGED <<pipeline, FILTERS, filter_history, reports, runs>>

NextNeighbors == GenerateNeighbors

NeighborSpec == InitNeighbors /\ [][NextNeighbors]_vars

\* ------------------------------------------- the gates of scan, bar by bar
\* A stored ES/1m frame of three bars for scan: the last bar's ATR and RSI
\* values and the RSI(2), RSI(5) of the bar before it range over values on
\* both sides of the thresholds; with early the crossing lies between the
\* first two bars (Python index 1) instead of the last two.
GateAtrs == {6, 24}
GateRsi14s == {22, 27, 50, 72, 78}
GateRsi2Prevs == {4, 8, 92, 96}
GateRsi2Nows == {6, 12, 88, 94}
GateRsi5Nows == {38, 40, 42}

GateBar(ts, atr, rsi14, rsi5, rsi2) ==
  [FetchedBar("ES", ts, "flat") EXCEPT !.atr = atr, !.rsi14 = rsi14,
                                        !.rsi5 = rsi5, !.rsi2 = rsi2]

GateFrame(atr, rsi14, rsi5_now, rsi2_prev, rsi2_now, early) ==
  LET before == GateBar(1, 24, 50, 40, rsi2_prev)
      quiet == GateBar(2, 24, 50, 40, rsi2_prev)
      cross == [ts \in 2..3 |-> GateBar(ts, atr, rsi14, rsi5_now, rsi2_now)]
      bars == IF early THEN <<before, cross[2], cross[3]>>
              ELSE <<before, quiet, cross[3]>>
  IN Save(Save(Save({}, "ES", "1m", bars[1]), "ES", "1m", bars[2]),
          "ES", "1m", bars[3])

\* configurations that differ from FilterConfig() in the thresholds of the
\* gates
GateConfigs ==
  {DefaultFilters,
   [DefaultFilters EXCEPT !.rsi14_buy = 25, !.rsi14_sell = 75],
   [DefaultFilters EXCEPT !.rsi2_buy_cross = 5, !.rsi2_sell_cross = 95],
   [DefaultFilters EXCEPT !.atr_min = 4, !.vwap_dev_atr = 1]}

InitGate ==
  /\ \E atr \in GateAtrs, rsi14 \in GateRsi14s, rsi5_now \in GateRsi5Nows,
        rsi2_prev \in GateRsi2Prevs, rsi2_now \in GateRsi2Nows, early \in BOOLEAN :
       candles = GateFrame(atr, rsi14, rsi5_now, rsi2_prev, rsi2_now, early)
  /\ FILTERS \in GateConfigs
  /\ candidates = {}
  /\ trades = {}
  /\ labels = {}
  /\ walk = NoWalk
  /\ filter_history = {}
  /\ reports = {}
  /\ opt = NoOpt
  /\ runs = NoRuns

NextGate ==
  \/ Scan("ES", "1m")
  \/ \E cfg \in GateConfigs : SetFilters(cfg)

GateSpec == InitGate /\ [][NextGate]_vars

\* ------------------------------------------ the metrics of a trade list
\* The trade table grows by one executed trade at a time; a trade's tick P&L
\* is one of a stop, a small loss, a flat exit, a small gain and a target.
DrawnPnlTicks == {-STOP_LOSS_TICKS, -3, 0, 5, TAKE_PROFIT_TICKS}

\* execute_new_trades commits one more ES Trade, its exit giving pnl_ticks
AppendTrade(pnl_ticks) ==
  /\ Cardinality(trades) < MaxTrades
  /\ trades' = trades \cup
       {[id |-> NextId(trades), symbol |-> "ES",
         entry_time |-> Cardinality(trades) + 1,
         pnl_ticks |-> pnl_ticks, pnl |-> pnl_ticks * TickSize("ES")]}
  /\ UNCHANGED <<gov, candles, candidates, labels, FILTERS, walk>>

NextMetrics == \E pnl_ticks \in DrawnPnlTicks : AppendTrade(pnl_ticks)

MetricsSpec == Init /\ [][NextMetrics]_vars

\* ------------------------- window re-evaluations followed statement by statement
\* Two calls of _rescan_execute_window in one process (two threads of the
\* Controller, or an optimize and a backtest), on a store with four bars per
\* series and one scored ES/1m candidate at timestamp 3 that has no trade yet.
EvalWindows == {<<3, 7>>, <<4, 7>>}
EvalBusy == {"purge", "scan", "execute", "read", "restore"}

EvalCandles(shape) ==
  SaveAll(SaveAll(SaveAll(SaveAll({}, StoredSeries, 1, "flat"),
                          StoredSeries, 2, "flat"),
                  StoredSeries, 3, "flat"),
          StoredSeries, 4, shape)

InitEval ==
  /\ \E shape \in Shapes : candles = EvalCandles(shape)
  /\ \E d \in {"long", "short"} :
       candidates =
         {ScoreCandidate(c, [ok |-> TRUE, score |-> GPT_SCORE_THRESHOLD, direction |-> d]) :
            c \in ScanTable({}, "ES", "1m", ScanLookbackLimit, DefaultFilters).cands}
  /\ trades = {}
  /\ labels = {}
  /\ FILTERS = DefaultFilters
  /\ walk = NoWalk
  /\ filter_history = {}
  /\ reports = {}
  /\ opt = NoOpt
  /\ runs = NoRuns

\* a restore that leaves the configuration under test in place
RestoredConfigKeepsTest(run) == run.filt_cfg

\* the value the last statement assigns to Config.FILTERS
RestoredConfig(run) == run.old_cfg

\* old_cfg = Config.FILTERS; Config.FILTERS = filt_cfg
RunSwap(r, start, end, filt_cfg) ==
  LET busy == \E q \in EvalRuns \ {r} : runs[q].pc \in EvalBusy
  IN /\ runs[r].pc = "idle"
     /\ runs' = [q \in EvalRuns |->
                   IF q = r
                   THEN [pc |-> "purge", start |-> start, end |-> end,
                         filt_cfg |-> filt_cfg, old_cfg |-> FILTERS,
                         before |-> [cands |-> candidates, trades |-> trades,
                                     FILTERS |-> FILTERS],
                         made |-> {}, ret |-> <<>>, overlapped |-> busy]
                   ELSE IF runs[q].pc \in EvalBusy
                        THEN [runs[q] EXCEPT !.overlapped = TRUE]
                        ELSE runs[q]]
     /\ FILTERS' = filt_cfg
     /\ UNCHANGED <<pipeline, filter_history, reports, opt>>

\* step 1: the purge of the window and its commit
RunPurge(r) ==
  LET purged == PurgeWindow(candidates, trades, runs[r].start, runs[r].end)
  IN /\ runs[r].pc = "purge"
     /\ candidates' = purged.cands
     /\ trades' = purged.trades
     /\ runs' = [runs EXCEPT ![r].pc = "scan"]
     /\ UNCHANGED <<candles, labels, walk, FILTERS, filter_history, reports, opt>>

\* step 2: the scans, reading Config.FILTERS as it is now
RunScan(r) ==
  /\ runs[r].pc = "scan"
  /\ candidates' = ScanAll(candidates, SymTfPairs(<<"ES">>, <<"1m">>),
                           RescanLookbackLimit, FILTERS)
  /\ runs' = [runs EXCEPT ![r].pc = "execute"]
  /\ UNCHANGED <<candles, trades, labels, walk, FILTERS, filter_history, reports, opt>>

\* step 3: execute_new_trades, reading Config.FILTERS as it is now
RunExecute(r) ==
  LET after == ExecuteTable(candidates, trades, {"ES"},
                            {"1m"}, FILTERS).trades
  IN /\ runs[r].pc = "execute"
     /\ trades' = after
     /\ runs' = [runs EXCEPT ![r].pc = "read", ![r].made = after \ trades]
     /\ UNCHANGED <<candles, candidates, labels, walk, FILTERS, filter_history,
                    reports, opt>>

\* trades = self._trades_between(start, end)
RunRead(r) ==
  /\ runs[r].pc = "read"
  /\ runs' = [runs EXCEPT ![r].pc = "restore",
                          ![r].ret = TradesBetween(trades, runs[r].start, runs[r].end)]
  /\ UNCHANGED <<pipeline, FILTERS, filter_history, reports, opt>>

\* Config.FILTERS = old_cfg; return trades
RunRestore(r) ==
  /\ runs[r].pc = "restore"
  /\ FILTERS' = RestoredConfig(runs[r])
  /\ runs' = [runs EXCEPT ![r].pc = "done"]
  /\ UNCHANGED <<pipeline, filter_history, reports, opt>>

\* the statement the call is at raises (the database or the provider fails):
\* the exception leaves _rescan_execute_window, which has no handler
RunFail(r) ==
  /\ runs[r].pc \in {"purge", "scan", "execute"}
  /\ runs' = [runs EXCEPT ![r].pc = "failed"]
  /\ UNCHANGED <<pipeline, FILTERS, filter_history, reports, opt>>

NextEval ==
  \E r \in EvalRuns :
    \/ \E w \in EvalWindows, cfg \in TestConfigs : RunSwap(r, w[1], w[2], cfg)
    \/ RunPurge(r)
    \/ RunScan(r)
    \/ RunExecute(r)
    \/ RunRead(r)
    \/ RunRestore(r)
    \/ RunFail(r)

EvalSpec == InitEval /\ [][NextEval]_vars

\* ======================================================= checked claims

\* ---- C1
TradePerCandidateUnique ==
  \A t1 \in trades, t2 \in trades : t1.candidate_id = t2.candidate_id => t1 = t2

ExecuteSkipsTraded ==
  \A a \in ExecArgs :
    ExecuteNewTrades(a[1], a[2]) =>
      \A t \in trades' \ trades : t.candidate_id \notin {u.candidate_id : u \in trades}

\* C1: after any sequence of collect, scan, scoring, execute_new_trades,
\* label_unlabeled and window re-evaluation runs no two Trades have the same
\* candidate_id, and a run of execute_new_trades creates no Trade for a
\* Candidate that has a linked Trade when the run starts.
C1_OneTradePerCandidate ==
  []TradePerCandidateUnique /\ [][ExecuteSkipsTraded]_vars

\* two Candidates, each executed into its own Trade
C1_Witness ==
  /\ Cardinality(trades) = 2
  /\ Cardinality({t.candidate_id : t \in trades}) = 2

\* ---- C2
LabelPerTradeUnique ==
  \A l1 \in labels, l2 \in labels : l1.trade_id = l2.trade_id => l1 = l2

LabelSkipsLabeled ==
  LabelUnlabeled =>
    \A l \in labels' \ labels : l.trade_id \notin {m.trade_id : m \in labels}

\* C2: after any sequence of runs no two Labels have the same trade_id, and a
\* run of label_unlabeled creates no Label for a Trade that has one when the
\* run starts.
C2_OneLabelPerTrade ==
  []LabelPerTradeUnique /\ [][LabelSkipsLabeled]_vars

\* two Trades, each labeled
C2_Witness ==
  /\ Cardinality(trades) = 2
  /\ \A t \in trades : \E l \in labels : l.trade_id = t.id

\* ---- C3
CandidateKey(c) == <<c.symbol, c.timeframe, c.timestamp>>

NoDuplicateCandidateKeys ==
  \A c1 \in candidates, c2 \in candidates :
    CandidateKey(c1) = CandidateKey(c2) => c1 = c2

\* after a run of scan(symbol, timeframe), running it again at once returns 0
SecondScanReturnsZero ==
  \A s \in SYMBOLS, tf \in TIMEFRAMES :
    Scan(s, tf) =>
      ScanTable(candidates', s, tf, ScanLookbackLimit, FILTERS').created = 0

\* C3: scan(symbol, timeframe) run a second time over unchanged bars with an
\* unchanged configuration returns 0 and adds no Candidate, and no two
\* Candidates ever share the same (symbol, timeframe, timestamp).
C3_ScanIdempotent ==
  [][SecondScanReturnsZero]_vars /\ []NoDuplicateCandidateKeys

\* ---- C4
\* a table as the bag of its rows without the columns in drop
WithoutIds(r, drop) == [f \in (DOMAIN r) \ drop |-> r[f]]
BagOf(rows, drop) ==
  [x \in {WithoutIds(r, drop) : r \in rows} |->
     Cardinality({r \in rows : WithoutIds(r, drop) = x})]
CandidateBag(cands) == BagOf(cands, {"id"})
TradeBag(trs) == BagOf(trs, {"id", "candidate_id"})

\* after a run of _rescan_execute_window, running it again at once with the
\* same arguments changes neither table (row ids aside) nor the returned list
SecondRescanChangesNothing ==
  \A a \in RescanArgs, w \in Windows, cfg \in TestConfigs :
    RescanExecuteWindow(a[1], a[2], w[1], w[2], cfg) =>
      LET again == RescanExecute(candidates', trades', a[1], a[2], w[1], w[2], cfg)
      IN /\ CandidateBag(again.cands) = CandidateBag(candidates')
         /\ TradeBag(again.trades) = TradeBag(trades')
         /\ TradeBag(Range(again.ret)) =
              TradeBag(Range(TradesBetween(trades', w[1], w[2])))

\* C4: _rescan_execute_window called twice in a row with identical arguments
\* on unchanged bars leaves the Candidates and Trades in the same state, and
\* returns the same Trades, as calling it once.
C4_RescanIdempotent == [][SecondRescanChangesNothing]_vars

\* ---- C5
\* the long/short conditions of the claim, from the bar and the two bounds
TouchesTarget(bar) ==
  IF walk.direction = "long" THEN bar.high >= WalkEntry + TAKE_PROFIT_TICKS * TickSize(walk.symbol)
  ELSE bar.low <= WalkEntry - TAKE_PROFIT_TICKS * TickSize(walk.symbol)
TouchesStop(bar) ==
  IF walk.direction = "long" THEN bar.low <= WalkEntry - STOP_LOSS_TICKS * TickSize(walk.symbol)
  ELSE bar.high >= WalkEntry + STOP_LOSS_TICKS * TickSize(walk.symbol)
ExitBar == walk.df[walk.ret[1].exit_i]

\* C5 as claimed: when the bar the walk exits on touches both the stop and the
\* target, the trade exits at the stop price with exit reason stop.
C5_DualTouchExitsAtStop ==
  (WalkDone /\ TouchesTarget(ExitBar) /\ TouchesStop(ExitBar)) =>
    /\ WalkTrade.exit_reason = "stop"
    /\ WalkTrade.exit_price = WalkTrade.stop_loss

\* C5 amended: when the bar the walk exits on touches both the stop and the
\* target, the trade exits at the target price with exit reason target, for
\* long and for short trades.
C5_DualTouchExitsAtTarget ==
  (WalkDone /\ TouchesTarget(ExitBar) /\ TouchesStop(ExitBar)) =>
    /\ WalkTrade.exit_reason = "target"
    /\ WalkTrade.exit_price = WalkTrade.take_profit
    /\ WalkTrade.pnl_ticks = TAKE_PROFIT_TICKS

\* a short trade whose exit bar, not the entry bar, touches both bounds
C5_Witness ==
  /\ WalkDone /\ TouchesTarget(ExitBar) /\ TouchesStop(ExitBar)
  /\ walk.direction = "short"
  /\ walk.ret[1].exit_i > walk.start_i

\* ---- C6
\* the bars the walk may visit: MAX_HOLD_BARS bars from the entry bar on
CapWindow ==
  {j \in walk.start_i..Len(walk.df) : j <= walk.start_i + MAX_HOLD_BARS - 1}
TouchingBars == {j \in CapWindow : TouchesTarget(walk.df[j]) \/ TouchesStop(walk.df[j])}

\* C6: a simulated trade exits on the earliest bar, from the entry bar on,
\* that touches the target or the stop; the exit price is that bound's price
\* and the tick P&L is +TAKE_PROFIT_TICKS for a target exit and
\* -STOP_LOSS_TICKS for a stop exit, for long and short trades alike.
C6_EarliestTouchExit ==
  WalkDone =>
    /\ TouchingBars # {} =>
         /\ WalkTrade.exit_reason \in {"target", "stop"}
         /\ walk.ret[1].exit_i \in TouchingBars
         /\ \A j \in TouchingBars : walk.ret[1].exit_i <= j
         /\ WalkTrade.exit_time = ExitBar.timestamp
    /\ WalkTrade.exit_reason = "target" =>
         /\ TouchesTarget(ExitBar)
         /\ WalkTrade.exit_price = WalkTrade.take_profit
         /\ WalkTrade.pnl_ticks = TAKE_PROFIT_TICKS
         /\ WalkTrade.pnl = TAKE_PROFIT_TICKS * TickSize(walk.symbol)
    /\ WalkTrade.exit_reason = "stop" =>
         /\ TouchesStop(ExitBar)
         /\ WalkTrade.exit_price = WalkTrade.stop_loss
         /\ WalkTrade.pnl_ticks = -STOP_LOSS_TICKS
         /\ WalkTrade.pnl = -STOP_LOSS_TICKS * TickSize(walk.symbol)

\* a short trade stopped out on a bar after the entry bar, a later bar
\* touching a bound as well
C6_Witness ==
  /\ WalkDone
  /\ walk.direction = "short"
  /\ WalkTrade.exit_reason = "stop"
  /\ walk.ret[1].exit_i > walk.start_i
  /\ Cardinality(TouchingBars) = 2

\* ---- C7
\* C7: if MAX_HOLD_BARS bars exist from the entry bar on and none of them
\* touches the stop or the target, the trade exits at the close of the
\* MAX_HOLD_BARS-th of them with the time-cap reason ('eod' in the code) and
\* bars_held = MAX_HOLD_BARS.
C7_TimeCapExit ==
  (WalkDone /\ Cardinality(CapWindow) = MAX_HOLD_BARS /\ TouchingBars = {}) =>
    LET cap == walk.df[walk.start_i + MAX_HOLD_BARS - 1]
    IN /\ WalkTrade.exit_reason = "eod"
       /\ WalkTrade.exit_price = cap.close
       /\ WalkTrade.exit_time = cap.timestamp
       /\ WalkTrade.bars_held = MAX_HOLD_BARS

\* a capped walk with a bar after the cap window, and that bar touches a bound
C7_Witness ==
  /\ WalkDone /\ Cardinality(CapWindow) = MAX_HOLD_BARS /\ TouchingBars = {}
  /\ Len(walk.df) > walk.start_i + MAX_HOLD_BARS - 1
  /\ LET after == walk.df[walk.start_i + MAX_HOLD_BARS]
     IN TouchesTarget(after) \/ TouchesStop(after)

\* ---- C8
\* C8: every Trade of a long candidate has stop_loss < entry_price <
\* take_profit and every Trade of a short one take_profit < entry_price <
\* stop_loss.
C8_BracketOrder ==
  WalkDone =>
    /\ WalkTrade.direction = "long" =>
         WalkTrade.stop_loss < WalkTrade.entry_price
         /\ WalkTrade.entry_price < WalkTrade.take_profit
    /\ WalkTrade.direction = "short" =>
         WalkTrade.take_profit < WalkTrade.entry_price
         /\ WalkTrade.entry_price < WalkTrade.stop_loss

C8_Witness == WalkDone /\ WalkTrade.direction = "short" /\ walk.symbol = "YM"

\* ---- C9
SetMax(S) == CHOOSE m \in S : \A x \in S : x <= m
Favorable(bar) ==
  IF walk.direction = "long" THEN bar.high - WalkEntry ELSE WalkEntry - bar.low
Adverse(bar) ==
  IF walk.direction = "long" THEN WalkEntry - bar.low ELSE bar.high - WalkEntry
\* the largest excursion among the bars from the entry bar to the bar j
BestUpTo(j) == SetMax({0} \cup {Favorable(walk.df[k]) : k \in walk.start_i..j})
WorstUpTo(j) == SetMax({0} \cup {Adverse(walk.df[k]) : k \in walk.start_i..j})

ExcursionsAtExit ==
  /\ walk.mfe >= 0 /\ walk.mae >= 0
  /\ WalkDone =>
       /\ WalkTrade.mfe = walk.mfe /\ WalkTrade.mae = walk.mae
       /\ WalkTrade.mfe = BestUpTo(walk.ret[1].exit_i)
       /\ WalkTrade.mae = WorstUpTo(walk.ret[1].exit_i)

\* C9: during the walk the running MFE and MAE are >= 0 and never decrease
\* from one bar to the next, and the Trade stores their values at the exit bar.
C9_ExcursionsMonotone ==
  []ExcursionsAtExit /\ [][walk'.mfe >= walk.mfe /\ walk'.mae >= walk.mae]_vars

\* a finished walk whose stored excursions were reached before the exit bar
C9_Witness ==
  /\ WalkDone
  /\ WalkTrade.mfe > Max(0, Favorable(ExitBar))
  /\ WalkTrade.mae > Max(0, Adverse(ExitBar))

\* ---- C10
CandidateOf(t) == CHOOSE c \in candidates : c.id = t.candidate_id

TradedCandidatesEligible ==
  \A t \in trades :
    /\ \E c \in candidates : c.id = t.candidate_id
    /\ CandidateOf(t).direction \in {"long", "short"}
    /\ CandidateOf(t).gpt_score # None
    /\ CandidateOf(t).gpt_score >= GPT_SCORE_THRESHOLD
    /\ t.direction = CandidateOf(t).direction

ExecuteOnlyRequested ==
  \A a \in ExecArgs :
    ExecuteNewTrades(a[1], a[2]) =>
      \A t \in trades' \ trades :
        \E c \in candidates : /\ c.id = t.candidate_id
                              /\ c.symbol \in Range(a[1])
                              /\ c.timeframe \in Range(a[2])

\* C10: a Trade exists only for a Candidate whose direction is long or short
\* and whose score is present and >= GPT_SCORE_THRESHOLD, and
\* execute_new_trades creates Trades only for Candidates of the requested
\* symbols and timeframes.
C10_OnlyEligibleExecuted ==
  []TradedCandidatesEligible /\ [][ExecuteOnlyRequested]_vars

\* one Candidate executed, another scored at the threshold with direction
\* none and left without a Trade
C10_Witness ==
  /\ trades # {}
  /\ \E c \in candidates :
       /\ c.direction = "none" /\ c.gpt_score >= GPT_SCORE_THRESHOLD
       /\ \A t \in trades : t.candidate_id # c.id

\* ---- C11
\* a candidate the query of execute_new_trades(symbols, timeframes) selects
EligibleFor(c, symbols, timeframes) ==
  /\ c.gpt_score # None /\ c.gpt_score >= GPT_SCORE_THRESHOLD
  /\ c.direction \in {"long", "short"}
  /\ \A t \in trades : t.candidate_id # c.id
  /\ c.symbol \in Range(symbols) /\ c.timeframe \in Range(timeframes)

HasLaterBar(c) ==
  \E k \in candles : /\ k.symbol = c.symbol /\ k.timeframe = c.timeframe
                     /\ k.timestamp > c.timestamp

ExecuteWaitsForEntryBar ==
  \A a \in ExecArgs :
    ExecuteNewTrades(a[1], a[2]) =>
      /\ candidates' = candidates
      /\ \A c \in candidates :
           EligibleFor(c, a[1], a[2]) =>
             (HasLaterBar(c) <=> \E t \in trades' : t.candidate_id = c.id)

\* C11: execute_new_trades creates no Trade for an eligible candidate with no
\* bar after its timestamp and leaves the candidate as it is; once a later bar
\* is stored, the next run that selects the candidate creates its Trade.
C11_SkipUntilEntryBar == [][ExecuteWaitsForEntryBar]_vars

\* an eligible candidate on the newest bar of its series, still without a Trade
C11_Witness ==
  \E c \in candidates :
    /\ EligibleFor(c, <<"ES">>, <<"1m">>)
    /\ ~HasLaterBar(c)

\* ---- C12
TradeWithId(id) == CHOOSE t \in trades : t.id = id

LabelsNewTradesByExit ==
  LabelUnlabeled =>
    \A l \in labels' \ labels :
      /\ \E t \in trades : t.id = l.trade_id
      /\ LET t == TradeWithId(l.trade_id)
         IN /\ t.exit_reason = "target" => l.win = TRUE
            /\ t.exit_reason = "stop" => l.win = FALSE
            /\ t.exit_reason = "eod" => (l.win <=> t.pnl_ticks >= 0)

\* C12: label_unlabeled labels a Trade favorable (win) when its exit reason
\* is target, unfavorable when it is stop, and for a time-cap exit ('eod')
\* favorable iff the trade's tick P&L is >= 0.
C12_LabelByExitReason == [][LabelsNewTradesByExit]_vars

\* a labelled time-cap exit that closed below a long entry by less than half
\* a tick: tick P&L 0, labelled favorable
C12_Witness ==
  \E l \in labels, t \in trades :
    /\ t.id = l.trade_id
    /\ t.exit_reason = "eod" /\ t.pnl_ticks = 0
    /\ t.direction = "long" /\ t.exit_price < t.entry_price
    /\ l.win = TRUE

\* ---- C13
ActiveRows(fh) == {h \in fh : h.is_active}

AtMostOneActive == Cardinality(ActiveRows(filter_history)) <= 1

\* a step that adds a FilterHistory row (a promotion by optimize or by
\* approve_report) leaves that row, and no other, active
PromotionActivatesOnlyNewRow ==
  filter_history' # filter_history =>
    \E h \in filter_history' :
      /\ h.id \notin {g.id : g \in filter_history}
      /\ ActiveRows(filter_history') = {h}
      /\ Cardinality(filter_history') = Cardinality(filter_history) + 1

\* C13: after any sequence of promotions at most one FilterHistory row has
\* is_active = true, and immediately after a promotion the only active row is
\* the newly promoted one
C13_SingleActiveRow == []AtMostOneActive /\ [][PromotionActivatesOnlyNewRow]_vars

\* two promotions have happened: the earlier row is inactive, the later active
C13_Witness ==
  /\ Cardinality(filter_history) = 2
  /\ \E h \in filter_history, g \in filter_history :
       h.id < g.id /\ ~h.is_active /\ g.is_active

\* ---- C14
\* C14: outside a window re-evaluation, whenever an active FilterHistory row
\* exists, the configuration that detect and execute use (Config.FILTERS) is
\* the configuration stored in that row, after any sequence of promote,
\* approve, set-filters and process-restart operations
C14_LiveConfigIsActiveRow ==
  \A h \in ActiveRows(filter_history) : FILTERS = h.config

\* ---- C15
\* wins / count as a rational <<numerator, denominator>>; 0 for no trades
RateOf(m) == IF m.count = 0 THEN <<0, 1>> ELSE <<m.wins, m.count>>

\* new win rate >= old win rate + 3/100 and new total P&L >= old total P&L,
\* in exact arithmetic
AcceptanceHolds(new, old) ==
  /\ 100 * RateOf(new)[1] * RateOf(old)[2]
       >= 100 * RateOf(old)[1] * RateOf(new)[2] + 3 * RateOf(old)[2] * RateOf(new)[2]
  /\ new.total_pnl >= old.total_pnl

\* what optimize decided, as the report records it
TreatedAsAccepted(r) == r.statistical_significance = SIGNIFICANCE_HIGH

\* C15: optimize treats the selected variant as accepted iff its test-window
\* win rate is >= the baseline test win rate + 3 percentage points and its
\* test-window total P&L is >= the baseline test total P&L; equality on either
\* bound is accepted, failing either condition rejects
C15_AcceptanceBoundaryInclusive ==
  \A r \in reports :
    TreatedAsAccepted(r) <=> AcceptanceHolds(r.new_results.test, r.old_results.test)

\* ---- C16
\* C16: during the search a variant with train trade count c can become the
\* selected configuration against a baseline train count b only if c >= 20
\* and 10 * c >= 6 * b
C16_VariantCountFloor ==
  (opt.pc = "search" /\ opt.best_k # 0) =>
    /\ opt.best_metrics_train.count >= 20
    /\ 10 * opt.best_metrics_train.count >= 6 * opt.old_train.count

\* ---- C17
ApprovalFields(r) == <<r.approved, r.approved_by, r.rejection_reason>>

OtherFields(r) == WithoutIds(r, {"approved", "approved_by", "rejection_reason"})

\* every report stays in the table with its other fields as written, and
\* with its approval fields as they are once approve_report has set them
ReportsChangeOnce ==
  \A r \in reports :
    \E s \in reports' :
      /\ s.id = r.id
      /\ OtherFields(s) = OtherFields(r)
      /\ r.approved_by = "human" => ApprovalFields(s) = ApprovalFields(r)

\* C17: after an OptimizationReport is written, approve_report changes its
\* approval fields (approved, approved_by, rejection_reason) at most once over
\* any sequence of calls, and none of its other fields ever changes
C17_ApprovalUpdatedOnce == [][ReportsChangeOnce]_vars

\* ---- C18
\* a report no decision was taken on: not approved and without an approver
Pending(r) == ~r.approved /\ r.approved_by = NoneStr

HumanPromoted(h) == h.reason # "Auto-approved optimization"

\* a step that changes the approval fields of a report (a call of
\* approve_report) finds that report pending; if it approves, the report's
\* new_config is then the single active row, otherwise the rows and
\* Config.FILTERS stay as they were
ApproveActsOnPending ==
  \A r \in reports, s \in reports' :
    (s.id = r.id /\ ApprovalFields(s) # ApprovalFields(r)) =>
      /\ Pending(r)
      /\ IF s.approved
         THEN \E h \in filter_history' :
                /\ ActiveRows(filter_history') = {h}
                /\ h.config = r.new_config
                /\ h.id \notin {g.id : g \in filter_history}
         ELSE UNCHANGED <<filter_history, FILTERS>>

\* the active row a human decision promoted holds the new_config of a report
\* whose approved flag is true
HumanPromotionIsApproved ==
  \A h \in ActiveRows(filter_history) :
    HumanPromoted(h) => \E r \in reports : r.approved /\ r.new_config = h.config

\* C18: approve_report acts only on a pending report; with approve = true it
\* makes the report's new_config the single active FilterHistory entry, with
\* approve = false it leaves every FilterHistory row and the in-memory
\* configuration unchanged; so the active configuration promoted by a human
\* decision always belongs to a report whose approved flag is true
C18_ApproveOnlyPending == [][ApproveActsOnPending]_vars /\ []HumanPromotionIsApproved

\* ---- C19
\* the step optimize ends with: for the report r it adds, with acceptance as
\* optimize evaluated it (improved) and the approve argument of the call, the
\* approval flag, the promotion, the significance and the rejection reason
OptimizeReportsDecision ==
  \A r \in {s \in reports' : s.id \notin {q.id : q \in reports}} :
    LET accepted == Improved(r.new_results.test, r.old_results.test)
        promote == opt.approve /\ accepted
    IN /\ r.approved = promote
       /\ r.approved_by = IF promote THEN "auto" ELSE NoneStr
       /\ IF promote
          THEN /\ \E h \in filter_history' :
                    /\ ActiveRows(filter_history') = {h}
                    /\ h.config = r.new_config
                    /\ h.id \notin {g.id : g \in filter_history}
               /\ FILTERS' = r.new_config
          ELSE UNCHANGED <<filter_history, FILTERS>>
       /\ r.statistical_significance
            = IF accepted THEN SIGNIFICANCE_HIGH ELSE SIGNIFICANCE_LOW
       /\ (r.rejection_reason # NoneStr) <=> ~accepted

StatedLongGate(df, i, F) ==
  /\ df[i].rsi14 < F.rsi14_buy
  /\ df[i - 1].rsi2 <= F.rsi2_buy_cross /\ F.rsi2_buy_cross < df[i].rsi2
  /\ df[i].rsi5 >= df[i - 1].rsi5

StatedShortGate(df, i, F) ==
  /\ df[i].rsi14 > F.rsi14_sell
  /\ df[i - 1].rsi2 >= F.rsi2_sell_cross /\ F.rsi2_sell_cross > df[i].rsi2
  /\ df[i].rsi5 <= df[i - 1].rsi5

StatedEmits(df, i, F) ==
  /\ i - 1 >= 2
  /\ df[i].atr >= F.atr_min /\ df[i].atr <= F.atr_max
  /\ F.vwap_dev_atr # 0 => Abs(df[i].close - df[i].vwap) >= F.vwap_dev_atr * df[i].atr
  /\ StatedLongGate(df, i, F) \/ StatedShortGate(df, i, F)

\* C20: scan run under configuration F emits a Candidate at bar i iff
\* i >= 2, the ATR at i lies in [F.atr_min, F.atr_max], the VWAP-deviation
\* gate of F (if nonzero) is met, and the long gate or the short gate holds
\* with the thresholds rsi14_buy, rsi2_buy_cross, rsi14_sell, rsi2_sell_cross
\* of F itself
C20_GatesUseOwnThresholds ==
  LET df == FilterLoadFrame("ES", "1m", ScanLookbackLimit)
      emitted == ScanTable({}, "ES", "1m", ScanLookbackLimit, FILTERS).cands
  IN {c.timestamp : c \in emitted}
       = {df[i].timestamp : i \in {j \in 1..Len(df) : StatedEmits(df, j, FILTERS)}}

\* ---- C21
\* the values the dicts TRIPLE_RSI_BUY and TRIPLE_RSI_SELL may be given: the
\* shipped ones, and ones whose RSI(14) ranges overlap and whose cross levels
\* lie on either side of each other
BuyLevels ==
  {TRIPLE_RSI_BUY, [rsi14_lt |-> 80, rsi2_cross_up |-> 92],
   [rsi14_lt |-> 80, rsi2_cross_up |-> 5]}
SellLevels ==
  {TRIPLE_RSI_SELL, [rsi14_gt |-> 20, rsi2_cross_down |-> 90],
   [rsi14_gt |-> 20, rsi2_cross_down |-> 7]}

GateDf == FilterLoadFrame("ES", "1m", ScanLookbackLimit)

LongAt(buy, i) ==
  LongGate(buy, GateDf[i].rsi14, GateDf[i - 1].rsi5, GateDf[i].rsi5,
           GateDf[i - 1].rsi2, GateDf[i].rsi2)

ShortAt(sell, i) ==
  ShortGate(sell, GateDf[i].rsi14, GateDf[i - 1].rsi5, GateDf[i].rsi5,
            GateDf[i - 1].rsi2, GateDf[i].rsi2)

\* C21: for every pair of consecutive bars and every choice of cross levels
\* and RSI(14) thresholds, the long gate and the short gate never both hold
\* on the same bar
C21_GatesMutuallyExclusive ==
  \A buy \in BuyLevels, sell \in SellLevels, i \in 2..Len(GateDf) :
    ~(LongAt(buy, i) /\ ShortAt(sell, i))

\* a bar that passes the long gate while its RSI(14) also lies in the short
\* gate's range and its RSI(5) is unchanged: only the cross test of RSI(2)
\* keeps the short gate from holding
C21_Witness ==
  \E buy \in BuyLevels, sell \in SellLevels, i \in 2..Len(GateDf) :
    /\ LongAt(buy, i)
    /\ GateDf[i].rsi14 > sell.rsi14_gt
    /\ GateDf[i].rsi5 <= GateDf[i - 1].rsi5
    /\ GateDf[i - 1].rsi2 >= sell.rsi2_cross_down

\* ---- C22
\* execute_new_trades stopped after any k rows and then run again leaves the
\* table an uninterrupted run leaves, and keeps what the first run committed
ExecuteResumes ==
  \A a \in ExecArgs :
    LET rows == ExecRows(candidates, trades, Range(a[1]), Range(a[2]))
        whole == ExecuteTable(candidates, trades, Range(a[1]), Range(a[2]), FILTERS).trades
    IN \A k \in 0..Len(rows) :
         LET part == ExecLoop(Limit(rows, k), 1, trades, FILTERS)
         IN /\ part \subseteq whole
            /\ ExecuteTable(candidates, part, Range(a[1]), Range(a[2]), FILTERS).trades
                 = whole

\* the same for label_unlabeled
LabelResumes ==
  LET rows == LabelRows(trades, labels)
      whole == LabelTable(candidates, trades, labels).labels
  IN \A k \in 0..Len(rows) :
       LET part == LabelLoop(Limit(rows, k), 1, candidates, labels)
       IN /\ part \subseteq whole
          /\ LabelTable(candidates, trades, part).labels = whole

\* C22: if execute_new_trades or label_unlabeled is interrupted after
\* committing any prefix of its records and is run again on the same store,
\* the final Trades and Labels are those of one uninterrupted run: committed
\* records are kept, none is duplicated, every remaining input is processed
C22_ResumeAfterInterruption == ExecuteResumes /\ LabelResumes

\* a store as an interruption leaves it: of two executable candidates the
\* earlier has its trade and the later has none yet, and of the trades one
\* has its label while execution or labelling still has a row to process
C22_Witness ==
  /\ \E t \in trades, c \in candidates :
       /\ c.id \notin {u.candidate_id : u \in trades}
       /\ EligibleFor(c, <<"ES">>, <<"1m">>) /\ HasLaterBar(c)
       /\ t.candidate_id < c.id
  /\ labels # {}
  /\ Len(LabelRows(trades, labels)) + Len(ExecRows(candidates, trades, {"ES"}, {"1m"})) > 0

\* ---- C23
Unscored(c) == c.gpt_score = None

\* a candidate without a score has no direction and no rationale
UnscoredIsUnset ==
  \A c \in candidates : Unscored(c) => c.direction = NoneStr /\ c.gpt_reasoning = NoneStr

\* a scoring pass leaves every scored candidate as it is, and leaves every
\* unscored one either as it is (to be selected by the next pass) or scored
ScoringPassWritesOnce ==
  ScoreAllUnscored =>
    /\ \A c \in candidates : ~Unscored(c) => c \in candidates'
    /\ \A c \in candidates :
         Unscored(c) =>
           \E d \in candidates' :
             /\ d.id = c.id
             /\ d = c \/ (~Unscored(d) /\ d.direction # NoneStr)
    /\ Cardinality(candidates') = Cardinality(candidates)

\* C23: when the scorer fails or returns malformed output on every attempt,
\* the Candidate's score, direction and rationale stay unset and the next
\* score_all_unscored pass selects it again; once a Candidate has a score, no
\* later scoring pass changes its score or direction
C23_ScoreOnceOrStayUnscored == []UnscoredIsUnset /\ [][ScoringPassWritesOnce]_vars

\* a pass that scored the later of two candidates and failed on the earlier
C23_Witness ==
  \E c \in candidates, d \in candidates :
    c.id < d.id /\ Unscored(c) /\ ~Unscored(d)

\* ---- C24
\* the run of execute_new_trades a step belongs to, and the configuration
\* that is Config.FILTERS while it runs: the live one for a direct call, the
\* one under test inside a window re-evaluation
ExecutesUnder(cfg) ==
  \/ /\ cfg = FILTERS
     /\ \E a \in ExecArgs :
          \/ ExecuteNewTrades(a[1], a[2])
          \/ \E k \in 1..MaxCands : ExecuteInterrupted(a[1], a[2], k)
  \/ \E a \in RescanArgs, w \in Windows :
       RescanExecuteWindow(a[1], a[2], w[1], w[2], cfg)

\* the trades the purge of a window re-evaluation deletes in this step
PurgedNow ==
  {t \in trades :
     \E a \in RescanArgs, w \in Windows, cfg \in TestConfigs :
       /\ RescanExecuteWindow(a[1], a[2], w[1], w[2], cfg)
       /\ t \notin PurgeWindow(candidates, trades, w[1], w[2]).trades}

\* every row a step adds carries the configuration in effect during that
\* execution, and every row the step does not purge stays field by field
TradesAreSnapshots ==
  /\ \A t \in trades' \ trades :
       \E cfg \in TestConfigs : ExecutesUnder(cfg) /\ t.filter_config = cfg
  /\ \A t \in trades \ PurgedNow : t \in trades'

\* C24: every Trade's filter_config equals the configuration in effect
\* (Config.FILTERS) at the moment the trade was executed, and no later
\* operation (set-filters, a configuration swap during re-evaluation, a
\* promotion) alters the filter_config or any other field of an existing Trade
C24_TradeConfigFrozen == [][TradesAreSnapshots]_vars

\* a trade executed under one configuration after the live configuration was
\* set to another
C24_Witness ==
  \E t \in trades : t.filter_config # FILTERS /\ t.filter_config # DefaultFilters

\* ---- C25
\* the list optimize hands to _metrics_from_trades: all trades by entry time
TradeList == ByEntryTime(trades)

\* cumulative P&L of the first j trades (0 for the empty prefix)
CumPnl(j) ==
  LET sum[k \in 0..j] == IF k = 0 THEN 0 ELSE sum[k - 1] + TradeList[k].pnl
  IN sum[j]

\* the running peak of the cumulative P&L over the prefixes up to the j-th
PeakPnl(j) == SetMax({CumPnl(i) : i \in 0..j})

\* C25: for every non-empty ordered list of trades, max_drawdown is >= 0 and
\* is the maximum over the prefixes of the list, in trade order, of (running
\* peak of cumulative P&L minus cumulative P&L); it is 0 when no trade has
\* negative P&L
C25_MaxDrawdown ==
  TradeList # <<>> =>
    /\ MaxDrawdown(TradeList) >= 0
    /\ MaxDrawdown(TradeList)
         = SetMax({PeakPnl(j) - CumPnl(j) : j \in 1..Len(TradeList)})
    /\ (\A t \in trades : t.pnl >= 0) => MaxDrawdown(TradeList) = 0

\* a gain, then losses that take the cumulative P&L below the peak the gain
\* set, by less than the sum of all losses before and after
C25_Witness ==
  /\ Len(TradeList) = 3
  /\ TradeList[1].pnl < 0 /\ TradeList[2].pnl > 0 /\ TradeList[3].pnl < 0
  /\ MaxDrawdown(TradeList) = -TradeList[3].pnl
  /\ MaxDrawdown(TradeList) > -TradeList[1].pnl

\* ---- C26
BothDone == \A r \in EvalRuns : runs[r].pc = "done"

\* neither call began while the other was between its swap and its restore
Serialized == \A r \in EvalRuns : ~runs[r].overlapped

\* run r created a trade that carries another configuration than its own
\* and read it back
ReadsForeignTrade(r) ==
  \E t \in runs[r].made :
    t.filter_config # runs[r].filt_cfg /\ t \in Range(runs[r].ret)

\* run r created a trade and the purge of the other run deleted it before r
\* read its trades back
LostOwnTrade(r) ==
  \E t \in runs[r].made : t \notin Range(runs[r].ret) /\ t.entry_time >= runs[r].start

\* C26: if two window re-evaluations over overlapping windows with different
\* configurations are interleaved without serialization, a bad state is
\* reachable: one run reads back Trades created under the other run's
\* configuration (or has its own Trades purged by the other run before
\* reading them back), and the in-memory active configuration after both
\* runs finish can differ from the value before either started
\* (checked as: the bad state is reached by interleaved calls, and only by
\* them; when the two calls ran one after the other, each created its trades
\* under its own configuration, read them back, and Config.FILTERS ends as
\* it was before either began)
C26_UnsafeWhenInterleaved ==
  (BothDone /\ Serialized) =>
    /\ FILTERS = DefaultFilters
    /\ \A r \in EvalRuns : ~ReadsForeignTrade(r) /\ ~LostOwnTrade(r)

\* the bad state: both calls have returned, one read back a trade made under
\* the other's configuration, and Config.FILTERS is not what it was
C26_Witness ==
  /\ BothDone /\ ~Serialized
  /\ runs[1].filt_cfg # runs[2].filt_cfg
  /\ \E r \in EvalRuns : ReadsForeignTrade(r)
  /\ FILTERS # DefaultFilters

\* the other bad state: a call's own trade was purged by the other call
\* before the read
C26_WitnessPurged ==
  /\ BothDone /\ ~Serialized
  /\ \E r \in EvalRuns : LostOwnTrade(r)

\* ---- C27
\* a call that fails, no other call having run beside it, leaves the
\* Candidates, the Trades and Config.FILTERS as they were when it began
FailureLeavesNoTrace ==
  \A r \in EvalRuns :
    (RunFail(r) /\ ~runs[r].overlapped) =>
      /\ candidates' = runs[r].before.cands
      /\ trades' = runs[r].before.trades
      /\ FILTERS' = runs[r].before.FILTERS

\* C27: if the evaluation of one configuration variant fails partway (a
\* failure in purge, scan or execute inside _rescan_execute_window), the
\* durable store of Candidates and Trades and the in-memory active
\* configuration are left exactly as they were before that evaluation began
C27_VariantFailsAtomically == [][FailureLeavesNoTrace]_vars

\* ---- C28
\* the candidates a re-evaluation's scans emitted inside its window
EmittedInWindow(start, end) ==
  {c \in candidates' : c \notin candidates /\ c.timestamp >= start /\ c.timestamp < end}

ReturnsOwnTrades ==
  \A a \in RescanArgs, w \in Windows, cfg \in TestConfigs :
    RescanExecuteWindow(a[1], a[2], w[1], w[2], cfg) =>
      LET ret == Range(RescanExecute(candidates, trades, a[1], a[2],
                                     w[1], w[2], cfg).ret)
      IN /\ \A t \in ret :
              /\ t \in trades' /\ t \notin trades
              /\ t.filter_config = cfg
              /\ \E c \in EmittedInWindow(w[1], w[2]) : c.id = t.candidate_id
         /\ \A c \in EmittedInWindow(w[1], w[2]) :
              (/\ c.gpt_score # None /\ c.gpt_score >= GPT_SCORE_THRESHOLD
               /\ c.direction \in {"long", "short"} /\ HasLaterBar(c))
                => \E t \in ret : t.candidate_id = c.id

\* C28: the Trades returned by re-evaluating window [start, end) under
\* configuration F are exactly the Trades that re-evaluation created: each
\* has filter_config = F and is linked to a Candidate that the
\* re-evaluation's scan emitted inside the window, and every Candidate
\* emitted inside the window that can be executed contributes a returned Trade
C28_ReturnsTradesOfWindow == [][ReturnsOwnTrades]_vars

\* ---- C29
InScope(symbol, timeframe, timestamp, a, w) ==
  /\ symbol \in Range(a[1]) /\ timeframe \in Range(a[2])
  /\ timestamp >= w[1] /\ timestamp < w[2]

\* the candidate a trade of the given table is linked to
LinkedCandidate(cands, t) == CHOOSE c \in cands : c.id = t.candidate_id

\* a window re-evaluation keeps every Candidate outside its window or its
\* symbols and timeframes, adds none there, and does the same for the Trades
\* linked to such Candidates
RescanTouchesOnlyWindow ==
  \A a \in RescanArgs, w \in Windows, cfg \in TestConfigs :
    RescanExecuteWindow(a[1], a[2], w[1], w[2], cfg) =>
      /\ {c \in candidates : ~InScope(c.symbol, c.timeframe, c.timestamp, a, w)}
           = {c \in candidates' : ~InScope(c.symbol, c.timeframe, c.timestamp, a, w)}
      /\ {t \in trades :
            LET c == LinkedCandidate(candidates, t)
            IN ~InScope(c.symbol, c.timeframe, c.timestamp, a, w)}
           = {t \in trades' :
                LET c == LinkedCandidate(candidates', t)
                IN ~InScope(c.symbol, c.timeframe, c.timestamp, a, w)}

\* C29: re-evaluating window [start, end) for symbols S and timeframes T
\* changes only Candidates with timestamp in [start, end) and symbol and
\* timeframe in S x T, and the Trades linked to them: every other Candidate
\* and Trade is neither deleted, duplicated nor created
C29_RescanFrame == [][RescanTouchesOnlyWindow]_vars

\* ---- C30
\* the step on which a call that ran alone returns puts back the
\* configuration that was active when the call began
ReturnRestoresConfig ==
  \A r \in EvalRuns :
    (RunRestore(r) /\ ~runs[r].overlapped) =>
      /\ FILTERS = runs[r].filt_cfg
      /\ FILTERS' = runs[r].before.FILTERS

\* C30: when _rescan_execute_window returns normally, Config.FILTERS is the
\* value it had before the call, for every configuration under test; a
\* sequence of such calls (optimize without promotion, a backtest run)
\* therefore leaves the active configuration unchanged
C30_ConfigRestoredOnReturn == [][ReturnRestoresConfig]_vars

\* a call that ran alone under a configuration other than the active one has
\* returned, and the active configuration is again what it was
C30_Witness ==
  \E r \in EvalRuns :
    /\ runs[r].pc = "done" /\ ~runs[r].overlapped
    /\ runs[r].filt_cfg # runs[r].before.FILTERS
    /\ FILTERS = runs[r].before.FILTERS
    /\ \A q \in EvalRuns \ {r} : runs[q].pc = "idle"

\* ---- C31
\* the (train_start, train_end = test_start, test_end) an optimize call may
\* compute from the clock
OptimizeWindows == {<<1, 3, 7>>, <<1, 4, 7>>}

\* C31: the baseline test-window metrics optimize records (old_results.test)
\* are computed only from Trades produced under the baseline configuration:
\* every Trade counted has filter_config equal to the report's old_config,
\* also when an earlier run re-evaluated that window under another
\* configuration
C31_BaselineTestTradesUnderOldConfig ==
  \A a \in RescanArgs, w \in OptimizeWindows :
    \A t \in Range(OptimizeBaseline(candidates, trades, a[1], a[2],
                                    w[1], w[2], w[3], FILTERS).old_trades_test) :
      t.filter_config = FILTERS

\* ---- C32
\* a variant's metrics make it eligible for selection
Eligible(m) == m.count >= MinVariantCount(opt.old_train.count)

\* what the search holds as selected
Selected(o) == <<o.best_k, o.best_cfg, o.best_score, o.best_metrics_train>>

\* an iteration of the search keeps the selection the best eligible variant
\* seen so far, the earlier one on equal scores
SearchKeepsBestEligible ==
  \A m \in VariantMetrics :
    (/\ opt.pc = "search" /\ opt.k <= Len(opt.variants)
     /\ opt' = SearchUpdate(opt, opt.variants[opt.k], m)) =>
      IF Eligible(m) /\ (opt.best_k = 0 \/ m.score > opt.best_score)
      THEN Selected(opt') = <<opt.k, opt.variants[opt.k], m.score, m>>
      ELSE Selected(opt') = Selected(opt)

\* while no variant was selected the selection is the baseline, with the
\* baseline's train metrics
NoSelectionIsBaseline ==
  (opt.pc = "search" /\ opt.best_k = 0) =>
    /\ opt.best_cfg = opt.variants[Len(opt.variants)]
    /\ opt.best_metrics_train = opt.old_train

\* C32: after SEARCH the selected configuration is an eligible variant whose
\* objective score is maximal among the eligible variants, the earliest
\* generated one winning among equal scores; if no variant is eligible the
\* selected configuration is the baseline with the baseline's train metrics
C32_SearchSelectsBestEligible ==
  []NoSelectionIsBaseline /\ [][SearchKeepsBestEligible]_vars

\* ---- C33
\* the variant lies inside the bounds stated for the baseline base
InBounds(v, base) ==
  /\ 5 <= v.rsi14_buy /\ v.rsi14_buy <= 50
  /\ 50 <= v.rsi14_sell /\ v.rsi14_sell <= 95
  /\ v.atr_min >= 4
  /\ v.atr_max >= base.atr_min + 8
  /\ v.ema_fast >= 3
  /\ v.ema_slow >= 6

\* the value x moved by step d and brought back between lo and hi
Clamped(x, d, lo, hi) ==
  IF x + d < lo THEN lo ELSE IF x + d > hi THEN hi ELSE x + d

\* v is the baseline perturbed by the five steps, each field brought back
\* to its bound, the other fields the baseline's
IsVariantOf(v, base, da, db, ds, ef, es) ==
  /\ v.atr_min = (IF base.atr_min + da < 4 THEN 4 ELSE base.atr_min + da)
  /\ v.atr_max = (IF base.atr_max + da < base.atr_min + 8
                  THEN base.atr_min + 8 ELSE base.atr_max + da)
  /\ v.rsi14_buy = Clamped(base.rsi14_buy, db, 5, 50)
  /\ v.rsi14_sell = Clamped(base.rsi14_sell, ds, 50, 95)
  /\ v.ema_fast = (IF base.ema_fast + ef < 3 THEN 3 ELSE base.ema_fast + ef)
  /\ v.ema_slow = (IF base.ema_slow + es < 6 THEN 6 ELSE base.ema_slow + es)
  /\ \A f \in {"rsi5_cross_buffer", "rsi2_buy_cross", "rsi2_sell_cross",
               "volume_ma_window", "vwap_dev_atr"} : v[f] = base[f]

\* C33: for every baseline configuration neighbor generation returns a list:
\* one variant for each combination of the five perturbation sets (3^5 of
\* them), every one clamped into 5 <= rsi14_buy <= 50, 50 <= rsi14_sell <= 95,
\* atr_min >= 0.5, atr_max >= baseline atr_min + 1.0, ema_fast >= 3,
\* ema_slow >= 6, plus the baseline itself
C33_NeighborsClampedFullProduct ==
  opt.pc = "generated" =>
    LET vs == opt.variants
        grid == {-4, 0, 4} \X {-5, 0, 5} \X {-5, 0, 5} \X {-2, 0, 2} \X {-4, 0, 4}
    IN /\ Len(vs) = 3 * 3 * 3 * 3 * 3 + 1
       /\ vs[Len(vs)] = FILTERS
       /\ \A n \in 1..(Len(vs) - 1) :
            /\ InBounds(vs[n], FILTERS)
            /\ \E g \in grid : IsVariantOf(vs[n], FILTERS, g[1], g[2], g[3], g[4], g[5])
       /\ \A g \in grid :
            \E n \in 1..(Len(vs) - 1) :
              IsVariantOf(vs[n], FILTERS, g[1], g[2], g[3], g[4], g[5])

\* the neighborhood of a baseline below the bounds on every clamped field:
\* variants were clamped, and the baseline closes the list unclamped
C33_Witness ==
  /\ opt.pc = "generated"
  /\ FILTERS.rsi14_buy = 0 /\ FILTERS.rsi14_sell = 40 /\ FILTERS.atr_min = 0
  /\ FILTERS.atr_max = 4 /\ FILTERS.ema_fast = 1 /\ FILTERS.ema_slow = 2
  /\ opt.variants[1].rsi14_buy = 5 /\ opt.variants[1].atr_min = 4
  /\ ~InBounds(opt.variants[Len(opt.variants)], FILTERS)

\* ---- C34
\* the positions in the re-evaluations of the running call that are of the
\* test window
TestEvals == {n \in 1..Len(opt.evals) : opt.evals[n][1] = "test"}

\* the test window is re-evaluated at most once, as the last re-evaluation
\* so far, after the baseline's (if any) and one train re-evaluation per
\* variant, in the order of the list, and with the selected configuration
TestAfterSearch ==
  /\ Cardinality(TestEvals) <= 1
  /\ \A n \in TestEvals :
       LET first == IF opt.old_train.count < MIN_TRADES_FOR_OPTIMIZATION THEN 1 ELSE 0
       IN /\ n = Len(opt.evals)
          /\ n = first + Len(opt.variants) + 1
          /\ \A j \in 1..Len(opt.variants) :
               opt.evals[first + j] = <<"train", opt.variants[j]>>
          /\ opt.evals[n][2] = opt.best_cfg
  /\ opt.pc \in {"report", "promote", "done"} => Cardinality(TestEvals) = 1
  /\ opt.pc = "search" => TestEvals = {}

\* the report of the running call is in the table once the call is past REPORT
ReportPersisted == \E r \in reports : r.id = opt.report_id

\* a step adds a report only in REPORT, after the test re-evaluation, and
\* only one; a step promotes only after the call's report is in the table
PhasesInOrder ==
  /\ reports' # reports =>
       /\ opt.pc = "report" /\ TestEvals # {}
       /\ reports \subseteq reports'
       /\ Cardinality(reports') = Cardinality(reports) + 1
  /\ (filter_history' # filter_history \/ FILTERS' # FILTERS) =>
       /\ opt.pc = "promote" /\ ReportPersisted
       /\ reports' = reports
  /\ (opt.pc = "search" /\ opt'.pc = "search") => opt'.k = opt.k + 1
  /\ opt'.pc # opt.pc =>
       <<opt.pc, opt'.pc>> \in {<<"idle", "search">>, <<"done", "search">>,
                                <<"search", "report">>, <<"report", "promote">>,
                                <<"report", "done">>, <<"promote", "done">>}

\* C34: an optimize call runs TRAIN_BASELINE, SEARCH, TEST_VALIDATE, REPORT in
\* this order: the test window is re-evaluated exactly once, only after
\* every variant of SEARCH was evaluated and only with the selected variant;
\* exactly one OptimizationReport is persisted per call; a promotion happens
\* only after that report was persisted
C34_PhasesInOrder ==
  /\ [](TestAfterSearch /\ (opt.pc \in {"promote", "done"} => ReportPersisted))
  /\ [][PhasesInOrder]_vars

\* a call that promoted: a variant was selected, the test window was
\* re-evaluated with it, the report is in the table and the new row is active
C34_Witness ==
  /\ opt.pc = "done" /\ opt.approve /\ opt.improved /\ opt.best_k # 0
  /\ Cardinality(reports) = 1 /\ ReportPersisted
  /\ opt.evals[Len(opt.evals)] = <<"test", opt.best_cfg>>
  /\ opt.best_cfg # opt.variants[Len(opt.variants)]
  /\ \E h \in filter_history : h.is_active /\ h.config = opt.best_cfg

\* ---- C35
\* the folds of a run with steps = 2, the latest first, as <<train_start,
\* train_end, test_end>>
BacktestFolds == <<(<<3, 4, 5>>), (<<1, 2, 3>>)>>

\* the fold's span holds a bar of the symbols and timeframes under
\* consideration
FoldHasBars(symbols, timeframes, fold) ==
  \E c \in candles :
    /\ c.symbol \in Range(symbols) /\ c.timeframe \in Range(timeframes)
    /\ c.timestamp >= fold[1] /\ c.timestamp < fold[3]

\* C35: run skips every fold whose span [train_start, test_end) holds no bar
\* of the symbols and timeframes under consideration, without touching the
\* store for it, and re-evaluates the other folds; steps is the number of
\* folds not skipped, the aggregates are taken over those folds, and they
\* are 0 when every fold is skipped
C35_BacktestSkipsEmptyFolds ==
  \A a \in ExecArgs, cfg \in TestConfigs :
    LET run == BacktestRun(candles, candidates, trades, a[1], a[2], BacktestFolds, cfg)
        kept == {k \in 1..Len(BacktestFolds) : FoldHasBars(a[1], a[2], BacktestFolds[k])}
    IN /\ run.steps = Cardinality(kept)
       /\ {run.detail[n].fold : n \in 1..run.steps} = {BacktestFolds[k] : k \in kept}
       /\ kept = {} => /\ run.cands = candidates /\ run.trades = trades
                       /\ run.test_total_pnl = 0

\* ---- C36
\* the bars of the candidate's series later than the candidate
LaterBars(c) ==
  {b \in SeriesRows(c.symbol, c.timeframe) : b.timestamp > c.timestamp}

\* every trade entered on the earliest bar of its candidate's series that is
\* strictly later than the candidate, at that bar's open
EntryOnNextBar ==
  \A t \in trades :
    LET c == CandidateOf(t)
    IN \E b \in LaterBars(c) :
         /\ \A q \in LaterBars(c) : b.timestamp <= q.timestamp
         /\ t.entry_time = b.timestamp
         /\ t.entry_price = b.open
         /\ t.entry_time > c.timestamp

\* the trades one pass creates are created in ascending order of their
\* candidates' timestamps
ExecutedInTimestampOrder ==
  \A t1, t2 \in trades' \ trades :
    t1.id < t2.id =>
      (CHOOSE c \in candidates' : c.id = t1.candidate_id).timestamp
        <= (CHOOSE c \in candidates' : c.id = t2.candidate_id).timestamp

\* C36: every Trade's entry bar is the earliest bar of the candidate's own
\* symbol and timeframe with a timestamp strictly later than the
\* candidate's: entry_time is that bar's timestamp, entry_price its open;
\* candidates are executed in ascending order of candidate timestamp
C36_EntryOnNextBarInOrder ==
  []EntryOnNextBar /\ [][ExecutedInTimestampOrder]_vars

\* two trades of candidates at different bars, the earlier candidate's trade
\* created first, each entered on the bar after its candidate
C36_Witness ==
  \E t1, t2 \in trades :
    /\ t1.id < t2.id
    /\ CandidateOf(t1).timestamp = 3 /\ t1.entry_time = 4
    /\ CandidateOf(t2).timestamp = 5 /\ t2.entry_time = 6

\* ---- C37
\* C37: after any sequence of scan, scoring, execute_new_trades,
\* label_unlabeled and window re-evaluation operations every Trade's
\* candidate_id refers to an existing Candidate and every Label's trade_id
\* refers to an existing Trade (the purge of a re-evaluation leaves no
\* orphaned Trade or Label)
C37_NoOrphans ==
  /\ \A t \in trades : \E c \in candidates : c.id = t.candidate_id
  /\ \A l \in labels : \E t \in trades : t.id = l.trade_id

\* ---- C38
\* C38: with positive stop_ticks and target_ticks, for every labeled Trade
\* the Label's win flag is true iff the Trade's pnl_ticks is >= 0, whatever
\* the exit reason, so that the Labeler's win flag agrees with the win
\* definition of the win rate
C38_WinFlagAgreesWithPnl ==
  \A l \in labels, t \in trades :
    l.trade_id = t.id => (l.win <=> t.pnl_ticks >= 0)

\* ---- C39
\* low <= open, close <= high on every bar of the frame
WellFormed(df) ==
  \A j \in 1..Len(df) :
    /\ df[j].low <= df[j].open /\ df[j].open <= df[j].high
    /\ df[j].low <= df[j].close /\ df[j].close <= df[j].high

\* the bounds of a stored Trade
TradeWithinBounds(t) ==
  LET tick_size == TickSize(t.symbol)
  IN /\ -STOP_LOSS_TICKS <= t.pnl_ticks /\ t.pnl_ticks <= TAKE_PROFIT_TICKS
     /\ t.exit_reason = "target" => t.mfe >= TAKE_PROFIT_TICKS * tick_size
     /\ t.exit_reason = "stop" => t.mae >= STOP_LOSS_TICKS * tick_size
     /\ t.exit_reason = "eod" => /\ t.mfe < TAKE_PROFIT_TICKS * tick_size
                                 /\ t.mae < STOP_LOSS_TICKS * tick_size
     /\ 1 <= t.bars_held /\ t.bars_held <= MAX_HOLD_BARS

\* C39: for every Trade simulated over well-formed bars (low <= open,
\* close <= high): -stop_ticks <= pnl_ticks <= target_ticks; a target exit
\* has MFE >= target_ticks * tick_size; a stop exit has MAE >= stop_ticks *
\* tick_size; a time-cap exit has MFE < target_ticks * tick_size and
\* MAE < stop_ticks * tick_size; and 1 <= bars_held <= MAX_HOLD_BARS
C39_TradeWithinBounds ==
  WellFormed(walk.df) => \A t \in trades : TradeWithinBounds(t)

\* a Trade held to the cap over a frame longer than the cap, closed away
\* from its entry after a favorable excursion short of the target
C39_Witness ==
  /\ WellFormed(walk.df)
  /\ Len(walk.df) - walk.start_i + 1 > MAX_HOLD_BARS
  /\ \E t \in trades :
       /\ t.exit_reason = "eod" /\ t.bars_held = MAX_HOLD_BARS
       /\ t.mfe > 0 /\ t.pnl_ticks # 0

\* a Trade stopped out after its entry bar, at the stop distance
C39_WitnessStop ==
  /\ WellFormed(walk.df)
  /\ \E t \in trades :
       /\ t.exit_reason = "stop" /\ t.pnl_ticks = -STOP_LOSS_TICKS
       /\ t.bars_held > 1

====
